---------------------------- MODULE Spec2Model ----------------------------
(***************************************************************************)
(* A model of the greenzone-web backend: the Flask request handler of      *)
(* backend/app.py, the anomaly computation it drives, and the per-image    *)
(* Landsat pipeline of backend/gee_script/utils.py.                        *)
(*                                                                         *)
(* The backend only composes calls of the Earth Engine client; the pixel   *)
(* semantics of those calls (band arithmetic, masks, reducers) is modelled *)
(* at one pixel, with exact arithmetic in Q(sqrt r).                       *)
(***************************************************************************)
EXTENDS Integers, Sequences, FiniteSets, TLC

VARIABLES
    \* --- module initialisation and the request handler (app.py) ---
    bootPc,     \* position in the module-level initialisation code
    bootLog,    \* the Earth Engine start-up calls made so far, with outcomes
    data,       \* the parsed JSON body of the request being handled
    pc,         \* position of the handler
    log,        \* calls and remote fetches of the request being handled
    resp,       \* the response of the request being handled
    served,     \* number of requests answered
    \* --- one image flowing through get_landsat_collection (utils.py) ---
    sensor,     \* the catalogue the image comes from
    harmonization, \* the harmonization argument
    img,        \* the image (one pixel of it)
    prev,       \* the image before the last step
    img0,       \* the image as it entered the pipeline
    stage,      \* the last step applied
    \* --- anomaly_processing on a world of yearly composites ---
    world,      \* what the remote platform holds for the request's region
    areq,       \* the arguments of anomaly_processing
    result      \* the image it returned (or the error it ended with)

srvVars == <<bootPc, bootLog, data, pc, log, resp, served>>
pipeVars == <<sensor, harmonization, img, prev, img0, stage>>
anomVars == <<world, areq, result>>
vars == <<bootPc, bootLog, data, pc, log, resp, served,
          sensor, harmonization, img, prev, img0, stage,
          world, areq, result>>

-----------------------------------------------------------------------------
(* Exact arithmetic.  A rational is <<n, d>> with d > 0 in lowest terms.   *)

Abs(x) == IF x < 0 THEN -x ELSE x

RECURSIVE GCD(_, _)
GCD(a, b) == IF b = 0 THEN a ELSE GCD(b, a % b)

Q(n, d) ==
    LET g == GCD(Abs(n), Abs(d))
        s == IF d < 0 THEN -1 ELSE 1
    IN  <<(s * n) \div g, (s * d) \div g>>

QI(n) == <<n, 1>>
Q0 == QI(0)
LCM(a, b) == (a \div GCD(a, b)) * b
QAdd(x, y) ==
    LET m == LCM(x[2], y[2])
    IN  Q(x[1] * (m \div x[2]) + y[1] * (m \div y[2]), m)
QNeg(x) == <<-x[1], x[2]>>
QSub(x, y) == QAdd(x, QNeg(y))
QMul(x, y) ==
    LET a == Q(x[1], y[2])
        b == Q(y[1], x[2])
    IN  <<a[1] * b[1], a[2] * b[2]>>
QInv(x) == Q(x[2], x[1])
QLt(x, y) == QSub(x, y)[1] < 0
QLe(x, y) == QSub(x, y)[1] <= 0

RECURSIVE ISqrtFrom(_, _)
ISqrtFrom(n, k) == IF (k + 1) * (k + 1) > n THEN k ELSE ISqrtFrom(n, k + 1)
ISqrt(n) == ISqrtFrom(n, 0)
IsSquare(n) == n >= 0 /\ ISqrt(n) * ISqrt(n) = n

(* A number is a + b*sqrt(r) with a, b, r rational, r >= 0 and r no        *)
(* perfect square unless b = 0 (then r = 0), or it is NaN.                  *)
Num(a, b, r) ==
    IF b = Q0 \/ r = Q0 THEN [nan |-> FALSE, a |-> a, b |-> Q0, r |-> Q0]
    ELSE IF IsSquare(r[1]) /\ IsSquare(r[2])
         THEN [nan |-> FALSE,
               a |-> QAdd(a, QMul(b, Q(ISqrt(r[1]), ISqrt(r[2])))),
               b |-> Q0, r |-> Q0]
         ELSE [nan |-> FALSE, a |-> a, b |-> b, r |-> r]
NaN == [nan |-> TRUE, a |-> Q0, b |-> Q0, r |-> Q0]
Rat(q) == Num(q, Q0, Q0)
NInt(n) == Rat(QI(n))
Dec(n, d) == Rat(Q(n, d))
IsRat(x) == ~x.nan /\ x.b = Q0

\* The two operands lie in one field Q(sqrt r).
Compatible(x, y) == x.b = Q0 \/ y.b = Q0 \/ x.r = y.r
CommonR(x, y) == IF x.b = Q0 THEN y.r ELSE x.r
\* A value outside the model's number field stops the check.
Unrepresentable == CHOOSE n \in {} : TRUE

NAdd(x, y) ==
    IF x.nan \/ y.nan THEN NaN
    ELSE IF ~Compatible(x, y) THEN Unrepresentable
    ELSE Num(QAdd(x.a, y.a), QAdd(x.b, y.b), CommonR(x, y))
NNeg(x) == IF x.nan THEN NaN ELSE Num(QNeg(x.a), QNeg(x.b), x.r)
NSub(x, y) == NAdd(x, NNeg(y))
NMul(x, y) ==
    IF x.nan \/ y.nan THEN NaN
    ELSE IF ~Compatible(x, y) THEN Unrepresentable
    ELSE LET r == CommonR(x, y)
         IN  Num(QAdd(QMul(x.a, y.a), QMul(QMul(x.b, y.b), r)),
                 QAdd(QMul(x.a, y.b), QMul(x.b, y.a)), r)
NIsZero(x) == ~x.nan /\ x.a = Q0 /\ x.b = Q0
\* Image.divide: "returning 0 for division by 0".
NDiv(x, y) ==
    IF x.nan \/ y.nan THEN NaN
    ELSE IF NIsZero(y) THEN NInt(0)
    ELSE IF ~Compatible(x, y) THEN Unrepresentable
    ELSE LET r == CommonR(x, y)
             norm == QSub(QMul(y.a, y.a), QMul(QMul(y.b, y.b), r))
             conj == Num(y.a, QNeg(y.b), y.r)
         IN  NMul(NMul(x, conj), Rat(QInv(norm)))
NSqrt(x) ==
    IF x.nan THEN NaN
    ELSE IF ~IsRat(x) THEN Unrepresentable
    ELSE IF x.a[1] < 0 THEN NaN
    ELSE Num(Q0, QI(1), x.a)
\* a + b*sqrt(r) >= 0
NNonNeg(x) ==
    /\ ~x.nan
    /\ \/ x.a[1] >= 0 /\ x.b[1] >= 0
       \/ x.a[1] >= 0 /\ x.b[1] < 0
            /\ QLe(QMul(QMul(x.b, x.b), x.r), QMul(x.a, x.a))
       \/ x.a[1] < 0 /\ x.b[1] > 0
            /\ QLe(QMul(x.a, x.a), QMul(QMul(x.b, x.b), x.r))

-----------------------------------------------------------------------------
(* Images.  An image is modelled at one pixel: its band names in order,    *)
(* the value of each band, whether the pixel is unmasked, and the          *)
(* properties the pipeline reads.                                          *)

\* The position of a band name in a list of names, 0 when absent.
IndexOf(names, b) ==
    IF \E i \in 1..Len(names) : names[i] = b
    THEN CHOOSE i \in 1..Len(names) : names[i] = b /\ \A j \in 1..(i - 1) : names[j] # b
    ELSE 0
HasBand(image, b) == b \in DOMAIN image.val

\* Image.addBands(srcImg, overwrite): a band of a name the image holds
\* replaces it when overwrite is set, and is given a numeric suffix otherwise.
AddBand(image, b, v, overwrite) ==
    IF HasBand(image, b) /\ overwrite
    THEN [image EXCEPT !.val = [image.val EXCEPT ![b] = v]]
    ELSE LET nm == IF HasBand(image, b) THEN b \o "_1" ELSE b
         IN  [image EXCEPT
                !.names = Append(image.names, nm),
                !.val = [x \in DOMAIN image.val \cup {nm} |->
                            IF x = nm THEN v ELSE image.val[x]]]

\* Image.select(names): the named bands, in the order asked.
SelectBands(image, names) ==
    [image EXCEPT
        !.names = names,
        !.val = [x \in {names[i] : i \in 1..Len(names)} |-> image.val[x]]]

\* Image.updateMask(mask): the pixel stays unmasked where it was unmasked and
\* the mask is not zero.
UpdateMask(image, maskBit) == [image EXCEPT !.valid = image.valid /\ maskBit]

(* Image.expression(text, map): the expression text as a syntax tree, its   *)
(* names bound by the map to a band of the image or to a constant.         *)
Var(n) == [op |-> "var", name |-> n]
Bin(o, l, r) == [op |-> o, l |-> l, r |-> r]
Sqrt(x) == [op |-> "sqrt", l |-> x, r |-> x]
Lit(n) == [op |-> "lit", value |-> n]

RECURSIVE NPow(_, _)
NPow(x, n) == IF n = 0 THEN NInt(1) ELSE NMul(x, NPow(x, n - 1))

RECURSIVE Eval(_, _)
Eval(e, env) ==
    CASE e.op = "var" -> env[e.name]
      [] e.op = "lit" -> NInt(e.value)
      [] e.op = "+" -> NAdd(Eval(e.l, env), Eval(e.r, env))
      [] e.op = "-" -> NSub(Eval(e.l, env), Eval(e.r, env))
      [] e.op = "*" -> NMul(Eval(e.l, env), Eval(e.r, env))
      [] e.op = "/" -> NDiv(Eval(e.l, env), Eval(e.r, env))
      [] e.op = "pow" -> NPow(Eval(e.l, env), e.r.value)
      [] e.op = "sqrt" -> NSqrt(Eval(e.l, env))

-----------------------------------------------------------------------------
(* gee_script/utils.py: the vegetation indices.                            *)

\* Mutant of ndviExpr: the operands of the difference swapped.
ndviExprSwapped ==
    Bin("/", Bin("-", Var("RED"), Var("NIR")), Bin("+", Var("NIR"), Var("RED")))
\* '(NIR-RED)/(NIR+RED)'
ndviExpr == Bin("/", Bin("-", Var("NIR"), Var("RED")), Bin("+", Var("NIR"), Var("RED")))
ndvi(nir, red, bandname, image) ==
    LET v == Eval(ndviExpr, [n \in {"NIR", "RED"} |->
                 IF n = "NIR" THEN image.val[nir] ELSE image.val[red]])
    IN  AddBand(image, bandname, v, FALSE)

\* 'G*((NIR-RED)/(NIR+(C1*RED)-(C2*BLUE)+L))'
eviExpr ==
    Bin("*", Var("G"),
        Bin("/", Bin("-", Var("NIR"), Var("RED")),
                 Bin("+", Bin("-", Bin("+", Var("NIR"), Bin("*", Var("C1"), Var("RED"))),
                                   Bin("*", Var("C2"), Var("BLUE"))),
                          Var("L"))))
evi(nir, red, blue, G, C1, C2, L, bandname, image) ==
    LET env == [n \in {"NIR", "RED", "BLUE", "G", "C1", "C2", "L"} |->
                 CASE n = "NIR" -> image.val[nir]
                   [] n = "RED" -> image.val[red]
                   [] n = "BLUE" -> image.val[blue]
                   [] n = "G" -> G
                   [] n = "C1" -> C1
                   [] n = "C2" -> C2
                   [] n = "L" -> L]
    IN  AddBand(image, bandname, Eval(eviExpr, env), FALSE)

\* '(G * NIR + L - sqrt(pow((G * NIR + L), 2) - H*(NIR - RED)))/2'
msaviExpr ==
    LET gnl == Bin("+", Bin("*", Var("G"), Var("NIR")), Var("L"))
    IN  Bin("/",
            Bin("-", gnl,
                Sqrt(Bin("-", Bin("pow", gnl, Lit(2)),
                              Bin("*", Var("H"), Bin("-", Var("NIR"), Var("RED")))))),
            Lit(2))
msavi(nir, red, G, H, L, bandname, image) ==
    LET env == [n \in {"NIR", "RED", "G", "H", "L"} |->
                 CASE n = "NIR" -> image.val[nir]
                   [] n = "RED" -> image.val[red]
                   [] n = "G" -> G
                   [] n = "H" -> H
                   [] n = "L" -> L]
    IN  AddBand(image, bandname, Eval(msaviExpr, env), FALSE)

\* 'NIR * ((NIR - RED) / (NIR + RED))'
nirvExpr ==
    Bin("*", Var("NIR"),
        Bin("/", Bin("-", Var("NIR"), Var("RED")), Bin("+", Var("NIR"), Var("RED"))))
nirv(nir, red, bandname, image) ==
    LET v == Eval(nirvExpr, [n \in {"NIR", "RED"} |->
                 IF n = "NIR" THEN image.val[nir] ELSE image.val[red]])
    IN  AddBand(image, bandname, v, FALSE)

\* '(NIR - SWIR) / (NIR + SWIR)'
ndwiExpr == Bin("/", Bin("-", Var("NIR"), Var("SWIR")), Bin("+", Var("NIR"), Var("SWIR")))
ndwi(nir, swir, bandname, image) ==
    LET v == Eval(ndwiExpr, [n \in {"NIR", "SWIR"} |->
                 IF n = "NIR" THEN image.val[nir] ELSE image.val[swir]])
    IN  AddBand(image, bandname, v, FALSE)

-----------------------------------------------------------------------------
(* gee_script/utils.py: masks.                                             *)

RECURSIVE BitAnd(_, _)
BitAnd(a, b) ==
    IF a = 0 \/ b = 0 THEN 0
    ELSE (a % 2) * (b % 2) + 2 * BitAnd(a \div 2, b \div 2)

\* img.rightShift(fromBit).bitwiseAnd((1 << (1 + toBit - fromBit)) - 1)
bitwiseExtract(qa, fromBit, toBit) ==
    LET maskSize == (1 + toBit) - fromBit
        mask == 2 ^ maskSize - 1
    IN  BitAnd(qa \div (2 ^ fromBit), mask)

\* Mutant of get_from_dict: a value already in the list is not added again.
RECURSIVE get_from_dictOnce(_, _)
get_from_dictOnce(a_list, a_dict) ==
    IF a_list = <<>> THEN <<>>
    ELSE LET f == get_from_dictOnce(SubSeq(a_list, 1, Len(a_list) - 1), a_dict)
             el == a_list[Len(a_list)]
         IN  IF el \in DOMAIN a_dict /\ a_dict[el] \notin {f[i] : i \in 1..Len(f)}
             THEN Append(f, a_dict[el])
             ELSE f
\* a_list.iterate(wrap, []): the values of the elements that are keys.
RECURSIVE get_from_dict(_, _)
get_from_dict(a_list, a_dict) ==
    IF a_list = <<>> THEN <<>>
    ELSE LET f == get_from_dict(SubSeq(a_list, 1, Len(a_list) - 1), a_dict)
             el == a_list[Len(a_list)]
         IN  IF el \in DOMAIN a_dict THEN Append(f, a_dict[el]) ELSE f

\* list.iterate(lambda img, previous: previous.And(img), first)
RECURSIVE AndFold(_, _)
AndFold(list, first) ==
    IF list = <<>> THEN first
    ELSE AndFold(SubSeq(list, 1, Len(list) - 1), first) /\ list[Len(list)]

DefaultCloudMasks == <<"dilutedCloud", "cirrus", "cloud", "shadow">>

landsat578_cloud(masks, image) ==
    LET qa == image.val["QA_PIXEL"].a[1]
        dilutedCloud == bitwiseExtract(qa, 1, 1) = 0
        cirrus == bitwiseExtract(qa, 2, 2) = 0
        cloud == bitwiseExtract(qa, 3, 3) = 0
        cloudShadow == bitwiseExtract(qa, 4, 4) = 0
        cloud_dict == [k \in {"dilutedCloud", "cirrus", "cloud", "cloudShadow"} |->
                         CASE k = "dilutedCloud" -> dilutedCloud
                           [] k = "cirrus" -> cirrus
                           [] k = "cloud" -> cloud
                           [] k = "cloudShadow" -> cloudShadow]
        masks_list == get_from_dict(masks, cloud_dict)
        mask_image == AndFold(masks_list, masks_list[1])
    IN  UpdateMask(image, mask_image)

-----------------------------------------------------------------------------
(* get_landsat_collection of gee_script/utils.py, lines 60-69: the maps    *)
(* applied to every image of the merged and filtered collection.           *)

MaxReflNum == 1
ReflDen == 10
MaxQA == 31
ReflVals == {Dec(k, ReflDen) : k \in (-1)..MaxReflNum}

IndexBands == <<"ndvi", "msavi", "evi", "nirv", "ndwi">>
SourceBands == <<"SR_B1", "SR_B2", "SR_B3", "SR_B4", "SR_B5", "SR_B7", "ST_B10", "QA_PIXEL">>

FilteredImage(blue, red, nir, swir, qa, valid) ==
    [names |-> SourceBands,
     val |-> [b \in {SourceBands[i] : i \in 1..Len(SourceBands)} |->
                CASE b = "SR_B1" -> blue
                  [] b = "SR_B3" -> red
                  [] b = "SR_B4" -> nir
                  [] b = "SR_B5" -> swir
                  [] b = "QA_PIXEL" -> NInt(qa)
                  [] OTHER -> NInt(0)],
     valid |-> valid,
     time_start |-> 0]

NoImage == [names |-> <<>>, val |-> <<>>, valid |-> FALSE, time_start |-> 0]

SrvOff ==
    /\ bootPc = "off" /\ bootLog = <<>> /\ data = <<>> /\ pc = "off"
    /\ log = <<>> /\ resp = <<>> /\ served = 0
AnomOff == world = <<>> /\ areq = <<>> /\ result = <<>>
PipeOff ==
    /\ sensor = "none" /\ harmonization = FALSE /\ img = NoImage
    /\ prev = NoImage /\ img0 = NoImage /\ stage = "off"

StepCloud(image) == landsat578_cloud(DefaultCloudMasks, image)
StepNdvi(image) == ndvi("SR_B4", "SR_B3", "ndvi", image)
StepNdwi(image) == ndwi("SR_B4", "SR_B5", "ndwi", image)
\* Mutant of StepMsavi: H = 4 in place of 8.
StepMsaviH4(image) == msavi("SR_B4", "SR_B3", NInt(2), NInt(4), NInt(1), "msavi", image)
StepMsavi(image) == msavi("SR_B4", "SR_B3", NInt(2), NInt(8), NInt(1), "msavi", image)
\* Mutant of StepEvi: the green band (SR_B2) passed as blue.
StepEviGreen(image) ==
    evi("SR_B4", "SR_B3", "SR_B2", Dec(5, 2), NInt(6), Dec(15, 2), NInt(1), "evi", image)
StepEvi(image) ==
    evi("SR_B4", "SR_B3", "SR_B1", Dec(5, 2), NInt(6), Dec(15, 2), NInt(1), "evi", image)
StepNirv(image) == nirv("SR_B4", "SR_B3", "nirv", image)
StepSelect(image) == SelectBands(image, IndexBands)

PipeStep(from, to, out) ==
    /\ stage = from
    /\ stage' = to
    /\ prev' = img
    /\ img' = out
    /\ UNCHANGED <<sensor, harmonization, img0>>
    /\ UNCHANGED srvVars
    /\ UNCHANGED anomVars

MapCloud == stage = "filtered" /\ PipeStep("filtered", "cloud", StepCloud(img))
MapNdvi == stage = "cloud" /\ PipeStep("cloud", "ndvi", StepNdvi(img))
MapNdwi == stage = "ndvi" /\ PipeStep("ndvi", "ndwi", StepNdwi(img))
MapMsavi == stage = "ndwi" /\ PipeStep("ndwi", "msavi", StepMsavi(img))
MapEvi == stage = "msavi" /\ PipeStep("msavi", "evi", StepEvi(img))
MapNirv == stage = "evi" /\ PipeStep("evi", "nirv", StepNirv(img))
MapSelect == stage = "nirv" /\ PipeStep("nirv", "select", StepSelect(img))

InitPipe ==
    /\ \E blue \in ReflVals, red \in ReflVals, nir \in ReflVals, swir \in ReflVals,
          qa \in 0..MaxQA, valid \in BOOLEAN :
            img = FilteredImage(blue, red, nir, swir, qa, valid)
    /\ img0 = img
    /\ prev = NoImage
    /\ stage = "filtered"
    /\ sensor = "none"
    /\ harmonization = FALSE
    /\ SrvOff
    /\ AnomOff

NextPipe ==
    \/ MapCloud
    \/ MapNdvi
    \/ MapNdwi
    \/ MapMsavi
    \/ MapEvi
    \/ MapNirv
    \/ MapSelect

SpecPipe == InitPipe /\ [][NextPipe]_vars

-----------------------------------------------------------------------------
(* Claims about the per-image pipeline, checked under SpecPipe.            *)

AfterStage(s) ==
    LET order == <<"filtered", "cloud", "ndvi", "ndwi", "msavi", "evi", "nirv", "select">>
    IN  IndexOf(order, stage) >= IndexOf(order, s)
NIR0 == img0.val["SR_B4"]
RED0 == img0.val["SR_B3"]
BLUE0 == img0.val["SR_B1"]

\* C6: the band 'ndvi' the pipeline adds equals (NIR - RED) / (NIR + RED) with
\* NIR = SR_B4 and RED = SR_B3 of the image, and adding it leaves the bands
\* the image had unchanged.
C6_NdviFormula ==
    /\ AfterStage("ndvi") =>
          (~NIsZero(NAdd(NIR0, RED0)) =>
              NMul(img.val["ndvi"], NAdd(NIR0, RED0)) = NSub(NIR0, RED0))
    /\ stage = "ndvi" =>
          /\ img.names = Append(prev.names, "ndvi")
          /\ \A b \in DOMAIN prev.val : img.val[b] = prev.val[b]
          /\ prev.val["SR_B4"] = NIR0 /\ prev.val["SR_B3"] = RED0
C6_Witness ==
    /\ stage = "ndvi"
    /\ img.valid
    /\ NIR0 = NInt(0) /\ RED0 = Dec(1, ReflDen)
    /\ img.val["ndvi"] = NInt(-1)


\* C7: the band 'evi' the pipeline adds equals
\* G*((NIR - RED) / (NIR + C1*RED - C2*BLUE + L)) with NIR = SR_B4, RED = SR_B3,
\* BLUE = SR_B1 and G = 2.5, C1 = 6, C2 = 7.5, L = 1.
EviDenominator ==
    NAdd(NSub(NAdd(NIR0, NMul(NInt(6), RED0)), NMul(Dec(15, 2), BLUE0)), NInt(1))
C7_EviFormula ==
    AfterStage("evi") =>
        (~NIsZero(EviDenominator) =>
            NMul(img.val["evi"], EviDenominator) = NMul(Dec(5, 2), NSub(NIR0, RED0)))
C7_Witness ==
    /\ stage = "evi"
    /\ img.valid
    /\ BLUE0 = Dec(1, ReflDen) /\ RED0 = NInt(0) /\ NIR0 = Dec(1, ReflDen)
    /\ img.val["evi"] = Dec(5 * 2, 2 * 7)

\* C8: the band 'msavi' the pipeline adds equals
\* (G*NIR + L - sqrt((G*NIR + L)^2 - H*(NIR - RED))) / 2 with NIR = SR_B4,
\* RED = SR_B3 and G = 2, H = 8, L = 1: the difference s = (G*NIR + L) - 2*msavi
\* is the non-negative root of the radicand.
MsaviLinear == NAdd(NMul(NInt(2), NIR0), NInt(1))
MsaviRadicand == NSub(NMul(MsaviLinear, MsaviLinear), NMul(NInt(8), NSub(NIR0, RED0)))
C8_MsaviFormula ==
    AfterStage("msavi") =>
        (NNonNeg(MsaviRadicand) =>
            LET s == NSub(MsaviLinear, NMul(NInt(2), img.val["msavi"]))
            IN  NNonNeg(s) /\ NMul(s, s) = MsaviRadicand)
C8_Witness ==
    /\ stage = "msavi"
    /\ img.valid
    /\ NIR0 = NInt(0) /\ RED0 = Dec(1, ReflDen)
    /\ ~IsRat(img.val["msavi"]) /\ ~img.val["msavi"].nan

\* C10: with the default mask list the cloud mask leaves a pixel unmasked only
\* if bits 1 (dilated cloud), 2 (cirrus), 3 (cloud) and 4 (cloud shadow) of
\* its QA_PIXEL value are all 0.
QABit(k) == (img0.val["QA_PIXEL"].a[1] \div (2 ^ k)) % 2
C10_ShadowMasked ==
    (AfterStage("cloud") /\ img.valid) =>
        (QABit(1) = 0 /\ QABit(2) = 0 /\ QABit(3) = 0 /\ QABit(4) = 0)

-----------------------------------------------------------------------------
(* get_landsat_collection of gee_script/utils.py, lines 27-50: what is     *)
(* done to an image of each catalogue before the collections are merged.   *)

Sensors == {"LC08", "LE07", "LT05"}
ReflectanceBands == <<"SR_B1", "SR_B2", "SR_B3", "SR_B4", "SR_B5", "SR_B7">>
SeqToSet(q) == {q[i] : i \in 1..Len(q)}

\* The bands of a catalogue image the pipeline reads.
CatalogueBands(sn) ==
    IF sn = "LC08"
    THEN <<"SR_B1", "SR_B2", "SR_B3", "SR_B4", "SR_B5", "SR_B6", "SR_B7", "ST_B10", "QA_PIXEL">>
    ELSE <<"SR_B1", "SR_B2", "SR_B3", "SR_B4", "SR_B5", "SR_B7", "ST_B6", "QA_PIXEL">>

\* ImageCollection.select(selectors, names): the selected bands, renamed.
SelectRename(image, selectors, names) ==
    [image EXCEPT
        !.names = names,
        !.val = [x \in SeqToSet(names) |-> image.val[selectors[IndexOf(names, x)]]]]

landsat8Select(image) ==
    SelectRename(image,
        <<"SR_B2", "SR_B3", "SR_B4", "SR_B5", "SR_B6", "SR_B7", "ST_B10", "QA_PIXEL">>,
        <<"SR_B1", "SR_B2", "SR_B3", "SR_B4", "SR_B5", "SR_B7", "ST_B10", "QA_PIXEL">>)

\* 'SR_B.' and 'ST_B.*' as sets of the names they match.
OpticalNames == {"SR_B1", "SR_B2", "SR_B3", "SR_B4", "SR_B5", "SR_B6", "SR_B7"}
ThermalNames == {"ST_B6", "ST_B10"}

applyScaleFactors(image) ==
    [image EXCEPT !.val = [b \in DOMAIN image.val |->
        IF b \in OpticalNames
        THEN NAdd(NMul(image.val[b], Dec(275, 10000000)), Dec(-2, 10))
        ELSE IF b \in ThermalNames
        THEN NAdd(NMul(image.val[b], Dec(341802, 100000000)), NInt(149))
        ELSE image.val[b]]]

\* img.select(bands).multiply(slopes).add(constants), added with overwrite:
\* the i-th selected band meets the i-th constant.
Rescale(image, bands, slopes, constants) ==
    [image EXCEPT !.val = [b \in DOMAIN image.val |->
        IF b \in SeqToSet(bands)
        THEN NAdd(NMul(image.val[b], Dec(slopes[IndexOf(bands, b)], 10000)),
                  Dec(constants[IndexOf(bands, b)], 10000))
        ELSE image.val[b]]]

\* slopes and constants in units of 0.0001
harmonizationRoy_fromETM_OLI(image) ==
    Rescale(image, ReflectanceBands,
        <<9785, 9542, 9825, 10073, 10171, 9949>>,
        <<-95, -16, -22, -21, -30, 29>>)

\* Mutant of harmonizationRoy_fromETMplus_OLI: the Landsat 5 coefficients.
harmonizationRoy_TMCoefficients(image) ==
    Rescale(image, ReflectanceBands,
        <<9785, 9542, 9825, 10073, 10171, 9949>>,
        <<-95, -16, -22, -21, -30, 29>>)

harmonizationRoy_fromETMplus_OLI(image) ==
    Rescale(image, ReflectanceBands,
        <<8474, 8483, 9047, 8462, 8937, 9071>>,
        <<3, 88, 61, 412, 254, 172>>)

MaxDn == 2
DnVals == {8000 * k : k \in 1..MaxDn}
ThermalDn == 11 * 4000

CatalogueImage(sn, dn, qa) ==
    [names |-> CatalogueBands(sn),
     val |-> [b \in SeqToSet(CatalogueBands(sn)) |->
                CASE b \in SeqToSet(ReflectanceBands) -> NInt(dn[IndexOf(ReflectanceBands, b)])
                  [] b = "SR_B6" -> NInt(dn[5] + 8000)
                  [] b = "QA_PIXEL" -> NInt(qa)
                  [] OTHER -> NInt(ThermalDn)],
     valid |-> TRUE,
     time_start |-> 0]

PrepStep(from, to, out) ==
    /\ stage = from
    /\ stage' = to
    /\ prev' = img
    /\ img' = out
    /\ UNCHANGED <<sensor, harmonization, img0>>
    /\ UNCHANGED srvVars
    /\ UNCHANGED anomVars

\* line 28-30: the Landsat 8 bands renamed to the Landsat 5 and 7 names
SelectL8 == sensor = "LC08" /\ PrepStep("raw", "renamed", landsat8Select(img))
\* line 31, 35, 38, 42, 44
ScaleL8 == sensor = "LC08" /\ PrepStep("renamed", "scaled", applyScaleFactors(img))
ScaleL57 == sensor # "LC08" /\ PrepStep("raw", "scaled", applyScaleFactors(img))
\* line 33-39
HarmonizeL7 ==
    /\ harmonization /\ sensor = "LE07"
    /\ PrepStep("scaled", "harmonized", harmonizationRoy_fromETMplus_OLI(img))
HarmonizeL5 ==
    /\ harmonization /\ sensor = "LT05"
    /\ PrepStep("scaled", "harmonized", harmonizationRoy_fromETM_OLI(img))
\* line 46-50: the collection enters landsat_dict
EnterDict ==
    /\ \/ stage = "harmonized"
       \/ stage = "scaled" /\ (sensor = "LC08" \/ ~harmonization)
    /\ stage' = "ready"
    /\ UNCHANGED <<sensor, harmonization, img, prev, img0>>
    /\ UNCHANGED srvVars
    /\ UNCHANGED anomVars

InitPrep ==
    /\ sensor \in Sensors
    /\ harmonization \in BOOLEAN
    /\ \E dn \in [1..6 -> DnVals] : img = CatalogueImage(sensor, dn, 0)
    /\ img0 = img
    /\ prev = NoImage
    /\ stage = "raw"
    /\ SrvOff
    /\ AnomOff

NextPrep ==
    \/ SelectL8
    \/ ScaleL8
    \/ ScaleL57
    \/ HarmonizeL7
    \/ HarmonizeL5
    \/ EnterDict

SpecPrep == InitPrep /\ [][NextPrep]_vars

-----------------------------------------------------------------------------
(* Claims about the preparation of the catalogue images, under SpecPrep.   *)

\* The catalogue band behind a band of the prepared image.
SourceBand(sn, b) ==
    IF sn = "LC08"
    THEN CASE b = "SR_B1" -> "SR_B2"
           [] b = "SR_B2" -> "SR_B3"
           [] b = "SR_B3" -> "SR_B4"
           [] b = "SR_B4" -> "SR_B5"
           [] b = "SR_B5" -> "SR_B6"
           [] OTHER -> b
    ELSE b
\* The band value after the scale factors: DN * 0.0000275 - 0.2.
ScaledRef(b) ==
    NSub(NMul(img0.val[SourceBand(sensor, b)], Dec(11, 400000)), Dec(1, 5))
\* (slope, intercept) in units of 0.0001 of band i: Landsat 7 (ETM+), Landsat 5 (TM).
CoefRef(sn, i) ==
    IF sn = "LE07"
    THEN <<<<8474, 3>>, <<8483, 88>>, <<9047, 61>>, <<8462, 412>>, <<8937, 254>>, <<9071, 172>>>>[i]
    ELSE <<<<9785, -95>>, <<9542, -16>>, <<9825, -22>>, <<10073, -21>>, <<10171, -30>>, <<9949, 29>>>>[i]

\* C9: with harmonization each of the six reflectance bands of a Landsat 7 or
\* Landsat 5 image becomes slope_b * x + intercept_b, x the band value after
\* the scale factors; Landsat 8 images are never rescaled, and without
\* harmonization no image is.
C9_Harmonization ==
    /\ stage = "harmonized" => (harmonization /\ sensor \in {"LE07", "LT05"})
    /\ stage = "ready" =>
          \A i \in 1..6 :
              LET b == ReflectanceBands[i]
                  x == ScaledRef(b)
              IN  IF harmonization /\ sensor \in {"LE07", "LT05"}
                  THEN img.val[b] =
                          NAdd(NMul(Dec(CoefRef(sensor, i)[1], 10000), x),
                               Dec(CoefRef(sensor, i)[2], 10000))
                  ELSE img.val[b] = x
C9_Witness ==
    /\ stage = "ready"
    /\ harmonization /\ sensor = "LE07"
    /\ img0.val["SR_B4"] = NInt(16000)
    /\ img.val["SR_B4"] = Dec(8462 * 24 + 41200, 1000000)

-----------------------------------------------------------------------------
(* Earth Engine collections at one pixel: a collection is a sequence of    *)
(* images.                                                                 *)

\* ee.Date.fromYMD as a day count that orders dates as the calendar does.
DateFromYMD(y, m, d) == (y * 12 + (m - 1)) * 31 + (d - 1)

NullImage == [status |-> "null", names |-> <<>>, val |-> <<>>, valid |-> FALSE, time_start |-> 0]
ErrorImage == [status |-> "error", names |-> <<>>, val |-> <<>>, valid |-> FALSE, time_start |-> 0]
IsImage(x) == x.status = "image"

MapSelect1(coll, names) == [i \in 1..Len(coll) |-> SelectBands(coll[i], names)]

\* Mutant of FilterDate: the end of the range included.
FilterDateInclusive(coll, start, end) ==
    LET Keep(image) == start <= image.time_start /\ image.time_start <= end
    IN  SelectSeq(coll, Keep)
\* collection.filterDate(start, end): start <= system:time_start < end
FilterDate(coll, start, end) ==
    LET Keep(image) == start <= image.time_start /\ image.time_start < end
    IN  SelectSeq(coll, Keep)
\* collection.first(): null for an empty collection
First(coll) == IF coll = <<>> THEN NullImage ELSE coll[1]

RECURSIVE NSum(_)
NSum(q) == IF q = <<>> THEN NInt(0) ELSE NAdd(q[1], NSum(Tail(q)))
\* The values of band number k at the pixel, over the images it is unmasked in.
ValidValues(coll, k) ==
    LET Valid(image) == image.valid
        kept == SelectSeq(coll, Valid)
    IN  [i \in 1..Len(kept) |-> kept[i].val[kept[i].names[k]]]
MeanOf(q) == NDiv(NSum(q), NInt(Len(q)))
\* ee.Reducer.stdDev: the population standard deviation
StdDevOf(q) ==
    LET m == MeanOf(q)
        sq == [i \in 1..Len(q) |-> NMul(NSub(q[i], m), NSub(q[i], m))]
    IN  NSqrt(NDiv(NSum(sq), NInt(Len(q))))

\* collection.mean() and collection.reduce(reducer): band by band, over the
\* images whose pixel is unmasked; masked where there is none.  The bands
\* are those of the first image; reduce() names them <band>_<output>.
Reduce(coll, R(_), suffix) ==
    LET names0 == coll[1].names
        names == [k \in 1..Len(names0) |-> names0[k] \o suffix]
        any == \E i \in 1..Len(coll) : coll[i].valid
    IN  [status |-> "image",
         names |-> names,
         val |-> [b \in SeqToSet(names) |->
                    IF any THEN R(ValidValues(coll, IndexOf(names, b))) ELSE NInt(0)],
         valid |-> any,
         time_start |-> 0]
CollMean(coll) == Reduce(coll, MeanOf, "")
CollStdDev(coll) == Reduce(coll, StdDevOf, "_stdDev")

\* Image.subtract / Image.divide: the bands are paired by position (a
\* one-band right operand meets every band), the result keeps the left
\* operand's names and properties and is masked where either is.
Pairwise(F(_, _), x, y) ==
    [x EXCEPT
        !.val = [b \in DOMAIN x.val |->
                    F(x.val[b],
                      y.val[y.names[IF Len(y.names) = 1 THEN 1 ELSE IndexOf(x.names, b)]])],
        !.valid = x.valid /\ y.valid]
Subtract(x, y) == Pairwise(NSub, x, y)
Divide(x, y) == Pairwise(NDiv, x, y)
\* Image.clip(geometry)
Clip(image, inside) == [image EXCEPT !.valid = image.valid /\ inside]
\* Image.select([0], ['z_score'])
SelectFirstAs(image, name) ==
    [image EXCEPT
        !.names = <<name>>,
        !.val = [b \in {name} |-> image.val[image.names[1]]]]

\* Mutant of image_mask: only the first listed value is compared.
image_maskFirstOnly(from_value, mask_parameter, image) ==
    UpdateMask(image, from_value # mask_parameter[1])

\* gee_script/utils.py image_mask(from_image, mask_parameter): the pixel is
\* kept where from_image differs from every listed value.
image_mask(from_value, mask_parameter, image) ==
    LET landcover_mask_list ==
            [i \in 1..Len(mask_parameter) |-> from_value # mask_parameter[i]]
        landcover_mask == AndFold(landcover_mask_list, landcover_mask_list[1])
    IN  UpdateMask(image, landcover_mask)

-----------------------------------------------------------------------------
(* JSON values of the request body and the Python conversions applied to   *)
(* them.  A string is a sequence of characters.                            *)

JNull == [t |-> "null", s |-> <<>>, n |-> 0]
JStr(chars) == [t |-> "str", s |-> chars, n |-> 0]
JNum(n) == [t |-> "num", s |-> <<>>, n |-> n]
JBool(b) == [t |-> "bool", s |-> <<>>, n |-> IF b THEN 1 ELSE 0]

Digits == <<"0", "1", "2", "3", "4", "5", "6", "7", "8", "9">>
IsDigit(c) == IndexOf(Digits, c) > 0
RECURSIVE DigitsValue(_)
DigitsValue(cs) ==
    IF cs = <<>> THEN 0
    ELSE 10 * DigitsValue(SubSeq(cs, 1, Len(cs) - 1)) + (IndexOf(Digits, cs[Len(cs)]) - 1)
RECURSIVE Strip(_)
Strip(cs) ==
    IF cs # <<>> /\ cs[1] = " " THEN Strip(Tail(cs))
    ELSE IF cs # <<>> /\ cs[Len(cs)] = " " THEN Strip(SubSeq(cs, 1, Len(cs) - 1))
    ELSE cs
RECURSIVE NatToChars(_)
NatToChars(n) ==
    IF n < 10 THEN <<Digits[n + 1]>>
    ELSE Append(NatToChars(n \div 10), Digits[(n % 10) + 1])

\* int(x): the integer, or the exception raised
PyInt(x) ==
    CASE x.t = "num" -> [raised |-> "", v |-> x.n]
      [] x.t = "bool" -> [raised |-> "", v |-> x.n]
      [] x.t = "str" ->
            LET cs == Strip(x.s)
                signed == cs # <<>> /\ cs[1] \in {"+", "-"}
                body == IF signed THEN Tail(cs) ELSE cs
            IN  IF body # <<>> /\ \A i \in 1..Len(body) : IsDigit(body[i])
                THEN [raised |-> "",
                      v |-> IF signed /\ cs[1] = "-" THEN -DigitsValue(body)
                            ELSE DigitsValue(body)]
                ELSE [raised |-> "ValueError", v |-> 0]
      [] OTHER -> [raised |-> "TypeError", v |-> 0]
\* str(x)
PyStr(x) ==
    CASE x.t = "str" -> x.s
      [] x.t = "num" -> IF x.n < 0 THEN <<"-">> \o NatToChars(-x.n) ELSE NatToChars(x.n)
      [] x.t = "bool" -> IF x.n = 1 THEN <<"T", "r", "u", "e">> ELSE <<"F", "a", "l", "s", "e">>
      [] OTHER -> <<"N", "o", "n", "e">>
\* the truth value of x in `if x:`
PyTruthy(x) ==
    CASE x.t = "str" -> x.s # <<>>
      [] x.t = "num" -> x.n # 0
      [] x.t = "bool" -> x.n = 1
      [] OTHER -> FALSE

-----------------------------------------------------------------------------
(* anomaly_processing (app.py lines 57-121, anomaly_processing.py lines    *)
(* 45-109) on the yearly composites make_composite returned.               *)

FirstYear == 2017
NYears == 3
MaxVal == 1
PastureMasked == 3

\* The five band values of the composite of year number k at the pixel: one
\* drawn value, spread so that the bands have different series.
BandValue(b, base, k) ==
    CASE b = "ndvi" -> base
      [] b = "msavi" -> base * base + k
      [] b = "evi" -> base + k * k
      [] b = "nirv" -> (base + 1) * (k + 1)
      [] b = "ndwi" -> k - base
Composite(k, base, valid) ==
    [status |-> "image",
     names |-> IndexBands,
     val |-> [b \in SeqToSet(IndexBands) |-> NInt(BandValue(b, base, k))],
     valid |-> valid,
     time_start |-> DateFromYMD(FirstYear + k - 1, 6, 1)]

\* Mutant of ZScoreOf: the operands of subtract swapped.
ZScoreOfSwapped(selected_image, summer_composite, inside) ==
    LET yMean == CollMean(summer_composite)
        stdImg == CollStdDev(summer_composite)
        anomaly == Clip(Divide(Subtract(yMean, selected_image), stdImg), inside)
    IN  [SelectFirstAs(anomaly, "z_score") EXCEPT !.time_start = selected_image.time_start]

\* The last steps, common to both files: app.py lines 107-121.
ZScoreOf(selected_image, summer_composite, inside) ==
    LET yMean == CollMean(summer_composite)
        stdImg == CollStdDev(summer_composite)
        anomaly == Clip(Divide(Subtract(selected_image, yMean), stdImg), inside)
    IN  [SelectFirstAs(anomaly, "z_score") EXCEPT !.time_start = selected_image.time_start]

S_NDVI == <<"N", "D", "V", "I">>
S_EVI == <<"E", "V", "I">>
S_SAVI == <<"S", "A", "V", "I">>

AnomalyTail(w, rq, selected_year, summer_composite) ==
    LET masked == IF PyTruthy(rq.grazing_only)
                  THEN [i \in 1..Len(summer_composite) |->
                           image_mask(w.pasture, <<PastureMasked>>, summer_composite[i])]
                  ELSE summer_composite
        dateIni == DateFromYMD(selected_year, 1, 1)
        dateEnd == DateFromYMD(selected_year, 12, 31)
        selected_image == First(FilterDate(masked, dateIni, dateEnd))
    IN  IF ~IsImage(selected_image) THEN ErrorImage
        ELSE ZScoreOf(selected_image, masked, w.inRegion)

\* Mutant of anomaly_processing_app: an unknown index keeps the last band.
anomaly_processing_appLast(w, rq) ==
    LET selected_vegetation_index == PyStr(rq.selected_vegetation_index)
        year == PyInt(rq.selected_year)
        summer_composite ==
            CASE selected_vegetation_index = S_NDVI -> MapSelect1(w.composites, <<"ndvi">>)
              [] selected_vegetation_index = S_EVI -> MapSelect1(w.composites, <<"evi">>)
              [] selected_vegetation_index = S_SAVI -> MapSelect1(w.composites, <<"msavi">>)
              [] OTHER -> MapSelect1(w.composites, <<"ndwi">>)
    IN  IF year.raised # "" THEN [ErrorImage EXCEPT !.status = year.raised]
        ELSE AnomalyTail(w, rq, year.v, summer_composite)

\* app.py: the band is selected after make_composite, and an index that is
\* none of the three names selects nothing.
anomaly_processing_app(w, rq) ==
    LET selected_vegetation_index == PyStr(rq.selected_vegetation_index)
        year == PyInt(rq.selected_year)
        summer_composite ==
            CASE selected_vegetation_index = S_NDVI -> MapSelect1(w.composites, <<"ndvi">>)
              [] selected_vegetation_index = S_EVI -> MapSelect1(w.composites, <<"evi">>)
              [] selected_vegetation_index = S_SAVI -> MapSelect1(w.composites, <<"msavi">>)
              [] OTHER -> w.composites
    IN  IF year.raised # "" THEN [ErrorImage EXCEPT !.status = year.raised]
        ELSE AnomalyTail(w, rq, year.v, summer_composite)

\* Mutant of anomaly_processing_module: 'SAVI' selects the band ndvi.
anomaly_processing_moduleSavi(w, rq) ==
    LET selected_vegetation_index == PyStr(rq.selected_vegetation_index)
        year == PyInt(rq.selected_year)
    IN  IF year.raised # "" THEN [ErrorImage EXCEPT !.status = year.raised]
        ELSE IF selected_vegetation_index \notin {S_NDVI, S_EVI, S_SAVI}
        THEN [ErrorImage EXCEPT !.status = "UnboundLocalError"]
        ELSE AnomalyTail(w, rq, year.v,
                MapSelect1(w.composites,
                    CASE selected_vegetation_index = S_NDVI -> <<"ndvi">>
                      [] selected_vegetation_index = S_EVI -> <<"evi">>
                      [] selected_vegetation_index = S_SAVI -> <<"ndvi">>))

\* anomaly_processing.py: summer_composite is bound only in the three
\* branches.
anomaly_processing_module(w, rq) ==
    LET selected_vegetation_index == PyStr(rq.selected_vegetation_index)
        year == PyInt(rq.selected_year)
    IN  IF year.raised # "" THEN [ErrorImage EXCEPT !.status = year.raised]
        ELSE IF selected_vegetation_index \notin {S_NDVI, S_EVI, S_SAVI}
        THEN [ErrorImage EXCEPT !.status = "UnboundLocalError"]
        ELSE AnomalyTail(w, rq, year.v,
                MapSelect1(w.composites,
                    CASE selected_vegetation_index = S_NDVI -> <<"ndvi">>
                      [] selected_vegetation_index = S_EVI -> <<"evi">>
                      [] selected_vegetation_index = S_SAVI -> <<"msavi">>))

NoResult == [file |-> "none", image |-> NullImage]

Worlds ==
    {[composites |-> [k \in 1..NYears |-> Composite(k, base[k], k # maskedYear)],
      inRegion |-> inside,
      pasture |-> pasture] :
        base \in [1..NYears -> 0..MaxVal], maskedYear \in 0..NYears,
        inside \in BOOLEAN, pasture \in {1, PastureMasked}}
IndexInputs == {JStr(S_NDVI), JStr(S_EVI), JStr(S_SAVI), JStr(<<"s", "a", "v", "i">>)}
YearInputs ==
    {JNum(y) : y \in (FirstYear - 1)..(FirstYear + NYears)}
        \cup {JStr(NatToChars(FirstYear + 1)), JStr(<<"y">>)}
Requests ==
    {[selected_vegetation_index |-> ix, selected_year |-> y, grazing_only |-> JBool(g)] :
        ix \in IndexInputs, y \in YearInputs, g \in BOOLEAN}

InitAnomaly ==
    /\ world \in Worlds
    /\ areq \in Requests
    /\ result = NoResult
    /\ SrvOff
    /\ PipeOff

AnomalyApp ==
    /\ result = NoResult
    /\ result' = [file |-> "app", image |-> anomaly_processing_app(world, areq)]
    /\ UNCHANGED <<world, areq>>
    /\ UNCHANGED srvVars
    /\ UNCHANGED pipeVars

AnomalyModule ==
    /\ result = NoResult
    /\ result' = [file |-> "module", image |-> anomaly_processing_module(world, areq)]
    /\ UNCHANGED <<world, areq>>
    /\ UNCHANGED srvVars
    /\ UNCHANGED pipeVars

NextAnomaly ==
    \/ AnomalyApp
    \/ AnomalyModule

SpecAnomaly == InitAnomaly /\ [][NextAnomaly]_vars

-----------------------------------------------------------------------------
(* Claims about anomaly_processing, checked under SpecAnomaly.             *)

RECURSIVE SumOver(_, _)
SumOver(S, f) ==
    IF S = {} THEN 0
    ELSE LET k == CHOOSE k \in S : TRUE
         IN  f[k] + SumOver(S \ {k}, f)

KnownIndex == PyStr(areq.selected_vegetation_index) \in {S_NDVI, S_EVI, S_SAVI}
\* The band the index names.
RequestedBand ==
    LET ix == PyStr(areq.selected_vegetation_index)
    IN  CASE ix = S_NDVI -> "ndvi" [] ix = S_EVI -> "evi" [] ix = S_SAVI -> "msavi"
\* The pasture mask of a grazing-only request hides the pixel in every year.
GrazedOut == PyTruthy(areq.grazing_only) /\ world.pasture = PastureMasked
\* The years whose composite has a value at the pixel.
ValuedYears == {k \in 1..NYears : world.composites[k].valid /\ ~GrazedOut}
YearValue == [k \in 1..NYears |-> world.composites[k].val[RequestedBand].a[1]]
YearSquare == [k \in 1..NYears |-> YearValue[k] * YearValue[k]]
\* The number of the selected year among the composites.
SelectedK == (PyInt(areq.selected_year).v - FirstYear) + 1

\* C5: the image anomaly_processing returns has the single band z_score;
\* where it has a value, z = (v - mean) / stddev, with v the selected year's
\* composite and mean and stddev taken over all yearly composites of the
\* requested band at that pixel (with n values of sum S and square sum Q:
\* z^2 * (n*Q - S^2) = (n*v - S)^2, z of the sign of n*v - S); it has no value
\* outside the region.
C5_ZScore ==
    (result.file # "none" /\ IsImage(result.image)) =>
        /\ result.image.names = <<"z_score">>
        /\ SelectedK \in 1..NYears
        /\ KnownIndex =>
            /\ result.image.valid <=> (world.inRegion /\ SelectedK \in ValuedYears)
            /\ result.image.valid =>
                LET z == result.image.val["z_score"]
                    n == Cardinality(ValuedYears)
                    S == SumOver(ValuedYears, YearValue)
                    QQ == SumOver(ValuedYears, YearSquare)
                    d == n * YearValue[SelectedK] - S
                    V == n * QQ - S * S
                IN  IF V = 0 THEN z = NInt(0)
                    ELSE /\ NMul(NMul(z, z), NInt(V)) = NInt(d * d)
                         /\ NNonNeg(NMul(z, NInt(d)))
                         /\ d # 0 => ~NIsZero(z)
C5_Witness ==
    /\ result.file = "app"
    /\ IsImage(result.image)
    /\ result.image.valid
    /\ PyStr(areq.selected_vegetation_index) = S_SAVI
    /\ PyTruthy(areq.grazing_only)
    /\ Cardinality(ValuedYears) = NYears
    /\ ~IsRat(result.image.val["z_score"])
    /\ ~NNonNeg(result.image.val["z_score"])

-----------------------------------------------------------------------------
(* app.py lines 13-21: the module-level initialisation.                    *)

Last(q) == q[Len(q)]
InitializeOutcomes == {"ok", "Exception", "BaseException"}
AuthenticateOutcomes == {"ok", "raise"}

\* Mutant of AfterSecondInitialize: a failed second attempt authenticates again.
AfterSecondInitializeRetry(outcome) == IF outcome = "ok" THEN "initialized" ELSE "except"
\* line 18: a second ee.Initialize() that raises is not caught
AfterSecondInitialize(outcome) == IF outcome = "ok" THEN "initialized" ELSE "crashed"

BootStep(to, event) ==
    /\ bootPc' = to
    /\ bootLog' = Append(bootLog, event)
    /\ UNCHANGED <<data, pc, log, resp, served>>
    /\ UNCHANGED pipeVars
    /\ UNCHANGED anomVars

\* line 14-16: try: ee.Initialize() / except Exception
InitializeFirst ==
    /\ bootPc = "start"
    /\ \E outcome \in InitializeOutcomes :
          BootStep(CASE outcome = "ok" -> "initialized"
                     [] outcome = "Exception" -> "except"
                     [] outcome = "BaseException" -> "crashed",
                   <<"Initialize", outcome>>)
\* line 17: ee.Authenticate()
Authenticate ==
    /\ bootPc = "except"
    /\ \E outcome \in AuthenticateOutcomes :
          BootStep(IF outcome = "ok" THEN "authenticated" ELSE "crashed",
                   <<"Authenticate", outcome>>)
\* line 18: ee.Initialize()
InitializeSecond ==
    /\ bootPc = "authenticated"
    /\ \E outcome \in InitializeOutcomes :
          BootStep(AfterSecondInitialize(outcome), <<"Initialize", outcome>>)
\* line 20-23: app = Flask(__name__); CORS(app); the route is registered
CreateApp ==
    /\ bootPc = "initialized"
    /\ bootPc' = "serving"
    /\ pc' = "idle"
    /\ UNCHANGED <<bootLog, data, log, resp, served>>
    /\ UNCHANGED pipeVars
    /\ UNCHANGED anomVars

-----------------------------------------------------------------------------
(* app.py lines 23-55: fetch_anomaly_map_data, with the calls it makes.    *)

MaxRequests == 2

Fields == {"selectedProvince", "selectedSoum", "selectedVegetationIndex",
           "selectedYear", "grazingOnly"}
Absent == [t |-> "absent", s |-> <<>>, n |-> 0]
FieldInputs(f) ==
    CASE f = "selectedProvince" -> {JStr(<<"A">>)}
      [] f = "selectedSoum" -> {JStr(<<"S">>)}
      [] f = "selectedVegetationIndex" -> {JStr(S_NDVI), JStr(<<"x">>)}
      [] f = "selectedYear" ->
            {JNum(FirstYear + 1), JStr(NatToChars(FirstYear + 1)), JStr(<<"y">>)}
      [] f = "grazingOnly" -> {JBool(TRUE), JBool(FALSE)}
\* A JSON object body: every field absent, null or one of its inputs.
ObjectBodies ==
    {[kind |-> "object", fields |-> [f \in {g \in Fields : c[g] # Absent} |-> c[f]]] :
        c \in {c \in [Fields -> UNION {FieldInputs(f) : f \in Fields} \cup {Absent, JNull}] :
                  \A f \in Fields : c[f] \in FieldInputs(f) \cup {Absent, JNull}}}
\* request.get_json() may also return None (a null body) or a list.
OtherBodies == {[kind |-> "null", fields |-> <<>>], [kind |-> "array", fields |-> <<>>]}
Bodies == ObjectBodies \cup OtherBodies

\* dict.get(key): None for a missing key
Get(d, key) == IF key \in DOMAIN d.fields THEN d.fields[key] ELSE JNull

\* Mutant of MissingRequired: grazing_only is not looked at.
MissingRequiredFour(d) ==
    \/ Get(d, "selectedProvince") = JNull
    \/ Get(d, "selectedSoum") = JNull
    \/ Get(d, "selectedVegetationIndex") = JNull
    \/ Get(d, "selectedYear") = JNull
\* Mutant of MissingRequired: `not grazing_only` in place of `is None`.
MissingRequiredFalsy(d) ==
    \/ Get(d, "selectedProvince") = JNull
    \/ Get(d, "selectedSoum") = JNull
    \/ Get(d, "selectedVegetationIndex") = JNull
    \/ Get(d, "selectedYear") = JNull
    \/ ~PyTruthy(Get(d, "grazingOnly"))
\* line 33-39
MissingRequired(d) ==
    \/ Get(d, "selectedProvince") = JNull
    \/ Get(d, "selectedSoum") = JNull
    \/ Get(d, "selectedVegetationIndex") = JNull
    \/ Get(d, "selectedYear") = JNull
    \/ Get(d, "grazingOnly") = JNull

NoBody == [kind |-> "none", fields |-> <<>>]
NoResponse == [status |-> 0, body |-> "", content_type |-> ""]
\* line 40
MissingFieldsResponse ==
    [status |-> 400, body |-> "{\"error\": \"Missing required fields in the request.\"}",
     content_type |-> "application/json"]
\* line 55
GeoJsonResponse ==
    [status |-> 200, body |-> "geojson_data", content_type |-> "application/json"]
\* An exception that leaves the view function: Flask answers 500.
ServerErrorResponse ==
    [status |-> 500, body |-> "Internal Server Error", content_type |-> "text/html"]

HandlerStep(from, to, events) ==
    /\ bootPc = "serving"
    /\ pc = from
    /\ pc' = to
    /\ log' = log \o events
    /\ UNCHANGED <<bootPc, bootLog, data, resp, served>>
    /\ UNCHANGED pipeVars
    /\ UNCHANGED anomVars
\* An exception propagates out of the handler.
Raise(from, events) ==
    /\ bootPc = "serving"
    /\ pc = from
    /\ pc' = "done"
    /\ log' = log \o events
    /\ resp' = ServerErrorResponse
    /\ served' = served + 1
    /\ UNCHANGED <<bootPc, bootLog, data>>
    /\ UNCHANGED pipeVars
    /\ UNCHANGED anomVars
\* A blocking getInfo(): it returns, or the remote platform's error is raised.
Fetch(from, to, what) ==
    \/ HandlerStep(from, to, <<<<"getInfo", what>>>>)
    \/ Raise(from, <<<<"getInfo", what>>, <<"raise", "EEException">>>>)

\* A POST to /api/fetch_anomaly_map_data arrives.
ReceiveRequest ==
    /\ bootPc = "serving"
    /\ pc \in {"idle", "done"}
    /\ served < MaxRequests
    /\ data' \in Bodies
    /\ pc' = "handler"
    /\ log' = <<>>
    /\ resp' = NoResponse
    /\ UNCHANGED <<bootPc, bootLog, served>>
    /\ UNCHANGED pipeVars
    /\ UNCHANGED anomVars

\* line 25-49: the fields are read and validated
Validate ==
    \/ /\ data.kind # "object"
       /\ Raise("handler", <<<<"raise", "AttributeError">>>>)
    \/ /\ data.kind = "object"
       /\ MissingRequired(data)
       /\ bootPc = "serving"
       /\ pc = "handler"
       /\ pc' = "done"
       /\ resp' = MissingFieldsResponse
       /\ served' = served + 1
       /\ UNCHANGED <<bootPc, bootLog, data, log>>
       /\ UNCHANGED pipeVars
       /\ UNCHANGED anomVars
    \/ /\ data.kind = "object"
       /\ ~MissingRequired(data)
       /\ HandlerStep("handler", "ap_args", <<<<"call", "anomaly_processing">>>>)

\* line 64-67: str() of three arguments, int(selected_year)
ConvertArguments ==
    LET year == PyInt(Get(data, "selectedYear"))
    IN  \/ /\ year.raised # ""
           /\ Raise("ap_args", <<<<"raise", year.raised>>>>)
        \/ /\ year.raised = ""
           /\ HandlerStep("ap_args", "ap_collection", <<>>)

\* line 70-82: the region and the Landsat collection, as expressions
BuildCollection ==
    /\ pc = "ap_collection"
    /\ HandlerStep("ap_collection", "mc_start",
            <<<<"build", "region">>, <<"build", "landsat_collection">>>>)

\* line 84, utils.py line 98
FetchStartYear == pc = "mc_start" /\ Fetch("mc_start", "mc_end", "startYear")
\* utils.py line 99
FetchEndYear == pc = "mc_end" /\ Fetch("mc_end", "gim_crs", "endYear")
\* Mutant of AfterCrs: the projection is fetched once.
AfterCrsOnce == "gim_info"
AfterCrs == "gim_transform"
\* utils.py line 102, 143
FetchCrs == pc = "gim_crs" /\ Fetch("gim_crs", AfterCrs, "projection")
\* utils.py line 144
FetchTransform == pc = "gim_transform" /\ Fetch("gim_transform", "gim_info", "projection")
\* utils.py line 145
FetchImageInfo == pc = "gim_info" /\ Fetch("gim_info", "ap_anomaly", "image")

\* utils.py line 127-131, app.py line 87-121: the composites, the band, the
\* mask and the anomaly, as expressions; anomaly_processing returns
BuildAnomaly ==
    /\ pc = "ap_anomaly"
    /\ HandlerStep("ap_anomaly", "cv_z",
            <<<<"build", "composites">>, <<"build", "anomaly">>,
              <<"return", "anomaly_processing">>,
              <<"call", "convert_gee_image_to_geojson">>, <<"build", "reduceRegion">>>>)

\* line 138
FetchZScore == pc = "cv_z" /\ Fetch("cv_z", "cv_lat", "z_score")
\* line 139
FetchLatitude == pc = "cv_lat" /\ Fetch("cv_lat", "cv_lon", "latitude")
\* line 140
FetchLongitude == pc = "cv_lon" /\ Fetch("cv_lon", "cv_dump", "longitude")

\* line 147-170, 55: the features, json.dumps (a list of numpy integers is
\* not serialisable), and the response
Respond ==
    \/ Raise("cv_dump", <<<<"raise", "TypeError">>>>)
    \/ /\ bootPc = "serving"
       /\ pc = "cv_dump"
       /\ pc' = "done"
       /\ log' = Append(log, <<"return", "convert_gee_image_to_geojson">>)
       /\ resp' = GeoJsonResponse
       /\ served' = served + 1
       /\ UNCHANGED <<bootPc, bootLog, data>>
       /\ UNCHANGED pipeVars
       /\ UNCHANGED anomVars

Init ==
    /\ bootPc = "start" /\ bootLog = <<>>
    /\ data = NoBody /\ pc = "off" /\ log = <<>> /\ resp = NoResponse /\ served = 0
    /\ PipeOff
    /\ AnomOff

Next ==
    \/ InitializeFirst
    \/ Authenticate
    \/ InitializeSecond
    \/ CreateApp
    \/ ReceiveRequest
    \/ Validate
    \/ ConvertArguments
    \/ BuildCollection
    \/ FetchStartYear
    \/ FetchEndYear
    \/ FetchCrs
    \/ FetchTransform
    \/ FetchImageInfo
    \/ BuildAnomaly
    \/ FetchZScore
    \/ FetchLatitude
    \/ FetchLongitude
    \/ Respond

Spec == Init /\ [][Next]_vars

-----------------------------------------------------------------------------
(* Properties of the start-up and of the request handler, under Spec.       *)

Present(d, f) == f \in DOMAIN d.fields /\ d.fields[f] # JNull
AllPresent(d) == d.kind = "object" /\ \A f \in Fields : Present(d, f)
SomeMissing(d) == d.kind = "object" /\ \E f \in Fields : ~Present(d, f)
Positions(l, e) == {i \in 1..Len(l) : l[i] = e}
Before(l, a, b) ==
    \E i \in Positions(l, a) : \E j \in Positions(l, b) : i < j
IsFetch(e) == e[1] = "getInfo"
Raised(l) == \E i \in 1..Len(l) : l[i][1] = "raise"
Fetches(l) == SelectSeq(l, IsFetch)
IsPrefix(a, b) == Len(a) <= Len(b) /\ \A i \in 1..Len(a) : a[i] = b[i]

\* C1: a request whose JSON object lacks one of the five fields, or holds null
\* in it, is answered with status 400 and the body {"error": "Missing required
\* fields in the request."}; neither anomaly_processing nor
\* convert_gee_image_to_geojson is called, so nothing is built or fetched.
C1_MissingFields ==
    (bootPc = "serving" /\ SomeMissing(data)) =>
        /\ log = <<>>
        /\ pc \in {"handler", "done"}
        /\ pc = "done" => resp = MissingFieldsResponse
        /\ pc = "handler" => resp = NoResponse
C1_Witness ==
    /\ pc = "done"
    /\ resp.status = 400
    /\ data.kind = "object"
    /\ DOMAIN data.fields = Fields
    /\ data.fields["grazingOnly"] = JNull
    /\ \A f \in Fields \ {"grazingOnly"} : Present(data, f)

\* C2, as stated: every request with all five fields present and not null
\* ends with status 200.
C2_AlwaysOk ==
    (bootPc = "serving" /\ AllPresent(data) /\ pc = "done") => resp.status = 200
\* C2, amended: for a request with all five fields present and not null
\* (grazingOnly = false included) validation passes, anomaly_processing is
\* called and a 400 is never returned; the request ends either with status 200
\* and Content-Type application/json, after anomaly_processing and then
\* convert_gee_image_to_geojson have returned, or with an exception raised by
\* int(selectedYear), by a remote fetch or by json.dumps, which leaves the
\* handler.
C2_ValidRequest ==
    (bootPc = "serving" /\ AllPresent(data)) =>
        /\ resp.status # 400
        /\ pc # "handler" => (log # <<>> /\ log[1] = <<"call", "anomaly_processing">>)
        /\ pc = "done" =>
              \/ /\ resp = GeoJsonResponse
                 /\ ~Raised(log)
                 /\ Before(log, <<"return", "anomaly_processing">>,
                           <<"call", "convert_gee_image_to_geojson">>)
                 /\ Last(log) = <<"return", "convert_gee_image_to_geojson">>
              \/ /\ resp = ServerErrorResponse
                 /\ Last(log)[1] = "raise"
                 /\ Positions(log, <<"return", "convert_gee_image_to_geojson">>) = {}
        /\ pc # "done" => (resp = NoResponse /\ ~Raised(log))
C2_Witness ==
    /\ AllPresent(data)
    /\ data.fields["grazingOnly"] = JBool(FALSE)
    /\ pc = "done"
    /\ resp = GeoJsonResponse

BootInitializes == {i \in 1..Len(bootLog) : bootLog[i][1] = "Initialize"}
BootAuthenticates == {i \in 1..Len(bootLog) : bootLog[i][1] = "Authenticate"}
\* C3: at start-up ee.Initialize() is attempted once; ee.Authenticate() runs
\* only after that attempt raised, once, and is followed by one more
\* ee.Initialize(); an Authenticate or a second Initialize that raises is the
\* last thing start-up does, and the app is not created.
C3_Startup ==
    /\ Cardinality(BootInitializes) <= 2
    /\ Cardinality(BootAuthenticates) <= 1
    /\ bootLog # <<>> => bootLog[1][1] = "Initialize"
    /\ \A i \in BootAuthenticates : i = 2 /\ bootLog[1] = <<"Initialize", "Exception">>
    /\ \A i \in BootInitializes \ {1} : i = 3 /\ bootLog[2] = <<"Authenticate", "ok">>
    /\ bootLog = <<<<"Initialize", "Exception">>>> => bootPc = "except"
    /\ bootLog = <<<<"Initialize", "Exception">>, <<"Authenticate", "ok">>>> =>
          bootPc = "authenticated"
    /\ \A i \in 2..Len(bootLog) :
          bootLog[i][2] # "ok" => (i = Len(bootLog) /\ bootPc = "crashed")
    /\ bootPc \in {"initialized", "serving"} => Last(bootLog) = <<"Initialize", "ok">>
    /\ bootPc # "serving" => (pc = "off" /\ served = 0)
C3_Witness ==
    /\ bootPc = "crashed"
    /\ pc = "off"
    /\ bootLog = <<<<"Initialize", "Exception">>, <<"Authenticate", "ok">>,
                   <<"Initialize", "Exception">>>>

\* The fetches of make_composite and get_image_metadata, then those of
\* convert_gee_image_to_geojson, in program order.
CompositeFetches ==
    <<<<"getInfo", "startYear">>, <<"getInfo", "endYear">>, <<"getInfo", "projection">>,
      <<"getInfo", "projection">>, <<"getInfo", "image">>>>
ConvertFetches ==
    <<<<"getInfo", "z_score">>, <<"getInfo", "latitude">>, <<"getInfo", "longitude">>>>
FetchesUpTo(i) == Len(Fetches(SubSeq(log, 1, i)))

\* C4, as stated: no getInfo happens before anomaly_processing has returned.
C4_NoFetchBeforeBuilt ==
    \A i \in 1..Len(log) :
        IsFetch(log[i]) =>
            \E j \in 1..(i - 1) : log[j] = <<"return", "anomaly_processing">>
\* C4, amended: while a valid request is handled, five blocking fetches happen
\* inside anomaly_processing before the anomaly expression is built (the start
\* year and the end year in make_composite, then the projection twice and the
\* image information in get_image_metadata); after anomaly_processing has
\* returned the only fetches are those of the z_score, latitude and longitude
\* lists, in that order, in convert_gee_image_to_geojson.
C4_FetchOrder ==
    /\ IsPrefix(Fetches(log), CompositeFetches \o ConvertFetches)
    /\ \A i \in 1..Len(log) :
          IsFetch(log[i]) =>
              LET before == SubSeq(log, 1, i - 1)
              IN  IF FetchesUpTo(i) <= Len(CompositeFetches)
                  THEN /\ before[1] = <<"call", "anomaly_processing">>
                       /\ Positions(before, <<"build", "anomaly">>) = {}
                       /\ Positions(before, <<"return", "anomaly_processing">>) = {}
                  ELSE /\ Before(before, <<"build", "anomaly">>,
                                 <<"return", "anomaly_processing">>)
                       /\ Before(before, <<"return", "anomaly_processing">>,
                                 <<"call", "convert_gee_image_to_geojson">>)
    /\ Positions(log, <<"build", "anomaly">>) # {} =>
          IsPrefix(CompositeFetches, Fetches(log))
    /\ (pc = "done" /\ resp = GeoJsonResponse) =>
          Fetches(log) = CompositeFetches \o ConvertFetches
C4_Witness ==
    /\ pc = "done"
    /\ resp.status = 200
    /\ Len(Fetches(log)) = Len(CompositeFetches) + Len(ConvertFetches)
    /\ Positions(log, <<"build", "anomaly">>) # {}

-----------------------------------------------------------------------------
(* The library functions called on their own: a call is drawn with its      *)
(* arguments (areq) and its environment (world), the function is applied   *)
(* and what it returns or raises is kept in result.                        *)

NoReturn == [fn |-> "none", raised |-> "", value |-> <<>>]
Returned(fn, v) == [fn |-> fn, raised |-> "", value |-> v]
Raising(fn, e) == [fn |-> fn, raised |-> e, value |-> <<>>]

LibStep(fn, out) ==
    /\ areq.fn = fn
    /\ result = NoReturn
    /\ result' = out
    /\ UNCHANGED <<world, areq>>
    /\ UNCHANGED srvVars
    /\ UNCHANGED pipeVars

-----------------------------------------------------------------------------
(* gee_script/landsat_functions.py get_landsat_collection, lines 16-123,   *)
(* on the scenes of the catalogue and their properties.                    *)

MaxScenes == 2
LastYear == 2023
DefaultCloudCoverPerc == 30
RequestCloudCoverPerc == 20

CloudCovers ==
    {RequestCloudCoverPerc, RequestCloudCoverPerc + 1,
     DefaultCloudCoverPerc, DefaultCloudCoverPerc + 1}
\* A scene of the catalogue: its sensor, its CLOUD_COVER, whether it meets
\* the area of interest, and its system:time_start.
Scene(sn, cover, inBox, t) ==
    [sensor |-> sn, CLOUD_COVER |-> cover, inBox |-> inBox, time_start |-> t]
SceneKinds ==
    {Scene(sn, cover, TRUE, DateFromYMD(FirstYear, 7, 1)) :
        sn \in Sensors, cover \in CloudCovers}
    \cup {Scene("LC08", RequestCloudCoverPerc + 1, FALSE, DateFromYMD(FirstYear, 7, 1)),
          Scene("LC08", DefaultCloudCoverPerc + 1, TRUE, DateFromYMD(FirstYear - 1, 7, 1))}
Catalogues == [1..MaxScenes -> SceneKinds]

\* line 105-109: collection_list.iterate(merge_ic, collection_list.get(0))
RECURSIVE MergeAll(_, _)
MergeAll(collection_list, first) ==
    IF collection_list = <<>> THEN first
    ELSE collection_list[Len(collection_list)]
            \o MergeAll(SubSeq(collection_list, 1, Len(collection_list) - 1), first)

\* collection.filter(ee.Filter.gt(property, value))
FilterGt(coll, value) ==
    LET Keep(scene) == scene.CLOUD_COVER > value
    IN  SelectSeq(coll, Keep)
FilterBounds(coll) ==
    LET Keep(scene) == scene.inBox
    IN  SelectSeq(coll, Keep)

get_landsat_collection(catalogue, dateIni, dateEnd, cloud_cover_perc, sensor_list) ==
    LET landsat_dict ==
            [sn \in Sensors |->
                LET Of(scene) == scene.sensor = sn IN SelectSeq(catalogue, Of)]
        collection_list == get_from_dict(sensor_list, landsat_dict)
    IN  IF collection_list = <<>> THEN Raising("get_landsat_collection", "EEException")
        ELSE Returned("get_landsat_collection",
                FilterGt(FilterDate(FilterBounds(MergeAll(collection_list, collection_list[1])),
                                    dateIni, dateEnd),
                         cloud_cover_perc))

LandsatCalls ==
    {[fn |-> "get_landsat_collection", cloud_cover_perc |-> perc, sensor |-> sns] :
        perc \in {DefaultCloudCoverPerc, RequestCloudCoverPerc},
        sns \in {<<"LC08", "LE07", "LT05">>, <<"LE07">>}}

\* anomaly_processing.py line 66-71: the dates of the request path
CallGetLandsatCollection ==
    /\ areq.fn = "get_landsat_collection"
    /\ LibStep("get_landsat_collection",
          get_landsat_collection(world, DateFromYMD(FirstYear, 1, 1),
              DateFromYMD(LastYear, 12, 31), areq.cloud_cover_perc, areq.sensor))

-----------------------------------------------------------------------------
(* gee_script/utils.py get_from_dict, lines 332-353, called on its own.     *)

MaxListLen == 3
ListElements == {"a", "b", "x"}
Dicts ==
    {[k \in {"a", "b"} |-> IF k = "a" THEN 1 ELSE 2],
     [k \in {"a", "b"} |-> 1],
     [k \in {"a"} |-> 1],
     [k \in {} |-> 1]}
SeqsUpTo(S, n) == UNION {[1..k -> S] : k \in 0..n}
DictCalls ==
    {[fn |-> "get_from_dict", a_list |-> l, a_dict |-> d] :
        l \in SeqsUpTo(ListElements, MaxListLen), d \in Dicts}
NoWorld == <<>>

CallGetFromDict ==
    /\ areq.fn = "get_from_dict"
    /\ LibStep("get_from_dict",
          Returned("get_from_dict", get_from_dict(areq.a_list, areq.a_dict)))

-----------------------------------------------------------------------------
(* gee_script/utils.py image_mask, lines 408-445, called on its own: the    *)
(* returned function applied to one image, at a pixel where from_image     *)
(* has the value from_value.                                               *)

MaxLandcover == 3
MaxMaskLen == 2
MaskCalls ==
    {[fn |-> "image_mask", from_value |-> v, mask_parameter |-> l,
      image |-> Composite(k, v, valid)] :
        v \in 1..MaxLandcover, l \in SeqsUpTo(1..MaxLandcover, MaxMaskLen),
        k \in 1..2, valid \in BOOLEAN}

\* line 422-423: an empty mask_parameter raises
CallImageMask ==
    /\ areq.fn = "image_mask"
    /\ LibStep("image_mask",
          IF areq.mask_parameter = <<>> THEN Raising("image_mask", "ValueError")
          ELSE Returned("image_mask",
                  image_mask(areq.from_value, areq.mask_parameter, areq.image)))

-----------------------------------------------------------------------------
(* gee_script/landsat_functions.py get_modis46a_500_collection (lines      *)
(* 171-243) and get_era5_collection (lines 245-317): what is mapped over   *)
(* the collection, by the Python values of the optional arguments.         *)

PyNone == [t |-> "None", v |-> <<>>]
OtherMasks == {PyNone, [t |-> "Image", v |-> <<>>], [t |-> "str", v |-> <<"m">>]}
OtherMaskParameters ==
    {PyNone, [t |-> "list", v |-> <<>>], [t |-> "list", v |-> <<PastureMasked>>],
     [t |-> "tuple", v |-> <<PastureMasked>>]}
\* bool(x): None and the empty containers are false, an ee.Image is true
Truthy(x) == x.t # "None" /\ (x.t \in {"list", "tuple", "str"} => x.v # <<>>)

\* line 231-241, 305-315
OtherMaskBlock(fn, maps, other_mask, other_mask_parameter) ==
    IF Truthy(other_mask) /\ Truthy(other_mask_parameter)
    THEN IF other_mask.t # "Image" THEN Raising(fn, "TypeError")
         ELSE IF other_mask_parameter.t # "list" THEN Raising(fn, "TypeError")
         ELSE IF Truthy(other_mask) /\ ~Truthy(other_mask_parameter)
         THEN Raising(fn, "ValueError")
         ELSE IF ~Truthy(other_mask) /\ Truthy(other_mask_parameter)
         THEN Raising(fn, "ValueError")
         ELSE Returned(fn, Append(maps, "image_mask"))
    ELSE Returned(fn, maps)
get_modis46a_500_collection(quality_mask, other_mask, other_mask_parameter) ==
    OtherMaskBlock("get_modis46a_500_collection",
        IF quality_mask THEN <<"modis43A_scale_factor", "modis43A_cloud">>
        ELSE <<"modis43A_scale_factor">>,
        other_mask, other_mask_parameter)
get_era5_collection(other_mask, other_mask_parameter) ==
    OtherMaskBlock("get_era5_collection", <<>>, other_mask, other_mask_parameter)

ModisCalls ==
    {[fn |-> "get_modis46a_500_collection", quality_mask |-> q, other_mask |-> m,
      other_mask_parameter |-> mp] :
        q \in BOOLEAN, m \in OtherMasks, mp \in OtherMaskParameters}
Era5Calls ==
    {[fn |-> "get_era5_collection", other_mask |-> m, other_mask_parameter |-> mp] :
        m \in OtherMasks, mp \in OtherMaskParameters}

CallModis ==
    /\ areq.fn = "get_modis46a_500_collection"
    /\ LibStep("get_modis46a_500_collection",
          get_modis46a_500_collection(areq.quality_mask, areq.other_mask,
                                      areq.other_mask_parameter))
CallEra5 ==
    /\ areq.fn = "get_era5_collection"
    /\ LibStep("get_era5_collection",
          get_era5_collection(areq.other_mask, areq.other_mask_parameter))

-----------------------------------------------------------------------------
(* gee_script/utils.py make_composite, lines 80-131 (the same code is in   *)
(* gee_script/landsat_functions.py, lines 125-166), at one pixel.          *)

MaxImages == 3
\* The year of a date: format('YYYY')
YearOf(t) == t \div (12 * 31)
\* An image of the input collection: one band, its value at the pixel (or
\* no value there), and its acquisition time.
PixelImage(v, valid, t) ==
    [status |-> "image", names |-> <<"ndvi">>, val |-> [b \in {"ndvi"} |-> NInt(v)],
     valid |-> valid, time_start |-> t]
PixelImages ==
    {PixelImage(v, valid, DateFromYMD(y, md[1], md[2])) :
        v \in {0, 1}, valid \in {TRUE}, y \in {FirstYear, FirstYear + 2},
        md \in {<<5, 31>>, <<6, 1>>, <<8, 30>>, <<8, 31>>}}
    \cup {PixelImage(0, FALSE, DateFromYMD(y, md[1], md[2])) :
        y \in {FirstYear, FirstYear + 2},
        md \in {<<5, 31>>, <<6, 1>>, <<8, 30>>, <<8, 31>>}}
\* An order of the images that refines the order of their times.
ImageRank(image) ==
    image.time_start * 3 + (IF image.valid THEN image.val["ndvi"].a[1] ELSE 2)
Collections ==
    {c \in SeqsUpTo(PixelImages, MaxImages) :
        \A i \in 1..Len(c) : \A j \in i..Len(c) : ImageRank(c[i]) <= ImageRank(c[j])}

\* collection.sort('system:time_start'): a stable insertion sort
RECURSIVE SortByTime(_)
SortByTime(coll) ==
    IF coll = <<>> THEN <<>>
    ELSE LET sorted == SortByTime(SubSeq(coll, 1, Len(coll) - 1))
             x == coll[Len(coll)]
             n == Cardinality({i \in 1..Len(sorted) : sorted[i].time_start <= x.time_start})
         IN  SubSeq(sorted, 1, n) \o <<x>> \o SubSeq(sorted, n + 1, Len(sorted))
\* reduceColumns(ee.Reducer.minMax(), ['system:time_start'])
MinTime(coll) == CHOOSE t \in {coll[i].time_start : i \in 1..Len(coll)} :
                    \A i \in 1..Len(coll) : t <= coll[i].time_start
MaxTime(coll) == CHOOSE t \in {coll[i].time_start : i \in 1..Len(coll)} :
                    \A i \in 1..Len(coll) : t >= coll[i].time_start

\* The sorted values of a sequence of integers.
RECURSIVE SortInts(_)
SortInts(q) ==
    IF q = <<>> THEN <<>>
    ELSE LET sorted == SortInts(SubSeq(q, 1, Len(q) - 1))
             x == q[Len(q)]
             n == Cardinality({i \in 1..Len(sorted) : sorted[i] <= x})
         IN  SubSeq(sorted, 1, n) \o <<x>> \o SubSeq(sorted, n + 1, Len(sorted))
\* ee.Reducer.median on a few inputs: the middle value, or the mean of the
\* two middle values.
MedianOf(q) ==
    LET s == SortInts([i \in 1..Len(q) |-> q[i].a[1]])
        n == Len(s)
    IN  IF n % 2 = 1 THEN NInt(s[(n + 1) \div 2])
        ELSE Dec(s[n \div 2] + s[n \div 2 + 1], 2)
\* collection.median(): an image without bands for an empty collection
CollMedian(coll) ==
    IF coll = <<>>
    THEN [status |-> "image", names |-> <<>>, val |-> <<>>, valid |-> FALSE, time_start |-> 0]
    ELSE Reduce(coll, MedianOf, "")

\* line 104-125
get_annual_median_composite(collection_sorted, year, startMonth, endMonth, inside) ==
    LET startDate == DateFromYMD(year, startMonth, 1)
        endDate == DateFromYMD(year, endMonth, 31)
        composite == FilterDate(collection_sorted, startDate, endDate)
        composite_median == Clip(CollMedian(composite), inside)
    IN  [status |-> "image", names |-> composite_median.names,
         val |-> composite_median.val, valid |-> composite_median.valid,
         time_start |-> startDate, start_month |-> startMonth, end_month |-> endMonth]

\* Mutant of make_composite: the years without an image in the window are
\* left out.
make_compositeNonEmpty(collection, startMonth, endMonth, inside) ==
    IF collection = <<>> THEN Raising("make_composite", "EEException")
    ELSE LET collection_sorted == SortByTime(collection)
             startYear == YearOf(MinTime(collection_sorted))
             endYear == YearOf(MaxTime(collection_sorted))
             all == [k \in 1..(endYear - startYear + 1) |->
                        get_annual_median_composite(collection_sorted, startYear + k - 1,
                            startMonth, endMonth, inside)]
             HasBands(image) == image.names # <<>>
         IN  Returned("make_composite", SelectSeq(all, HasBands))
\* line 93-131: the years are fetched from an empty collection's null dates
\* with an error
make_composite(collection, startMonth, endMonth, inside) ==
    IF collection = <<>> THEN Raising("make_composite", "EEException")
    ELSE LET collection_sorted == SortByTime(collection)
             startYear == YearOf(MinTime(collection_sorted))
             endYear == YearOf(MaxTime(collection_sorted))
         IN  Returned("make_composite",
                [k \in 1..(endYear - startYear + 1) |->
                    get_annual_median_composite(collection_sorted, startYear + k - 1,
                        startMonth, endMonth, inside)])

CompositeCalls ==
    {[fn |-> "make_composite", startMonth |-> m[1], endMonth |-> m[2], inside |-> m[3]] :
        m \in {<<6, 8, TRUE>>, <<6, 8, FALSE>>, <<5, 8, TRUE>>}}

CallMakeComposite ==
    /\ areq.fn = "make_composite"
    /\ LibStep("make_composite",
          make_composite(world, areq.startMonth, areq.endMonth, areq.inside))

-----------------------------------------------------------------------------
(* app.py convert_gee_image_to_geojson, lines 123-170 (the same code is in *)
(* gee_script/utils.py, lines 153-204), on the three fetched lists.        *)

MaxPixels == 2
\* A number of a fetched list, in halves: getInfo() parses a whole number
\* as a Python int and any other as a float.
Fetched(halves) ==
    [type |-> IF halves % 2 = 0 THEN "int" ELSE "float", halves |-> halves]
FetchedNumbers == {Fetched(h) : h \in 0..2}
\* np.array(list): int64 when every element is an int, float64 otherwise
\* and for the empty list; the elements take the array's type.
NpArray(list) ==
    LET dtype == IF list # <<>> /\ \A i \in 1..Len(list) : list[i].type = "int"
                 THEN "int64" ELSE "float64"
    IN  [i \in 1..Len(list) |-> [type |-> dtype, halves |-> list[i].halves]]
\* json.dumps writes a numpy float64 as a float and has no encoding for a
\* numpy int64.
Serializable(x) == x.type # "int64"

\* line 138-170; the JSON text is given by the value it denotes
convert_gee_image_to_geojson(z_score, latitude, longitude) ==
    LET pixel_values == NpArray(z_score)
        lats == NpArray(latitude)
        lons == NpArray(longitude)
        features ==
            [i \in 1..Len(pixel_values) |->
                [type |-> "Feature",
                 geometry |-> [type |-> "Point", coordinates |-> <<lons[i], lats[i]>>],
                 properties |-> [z_score |-> pixel_values[i]]]]
        geojson_data == [type |-> "FeatureCollection", features |-> features]
    IN  IF \A i \in 1..Len(features) :
              /\ Serializable(lons[i])
              /\ Serializable(lats[i])
              /\ Serializable(pixel_values[i])
        THEN Returned("convert_gee_image_to_geojson", geojson_data)
        ELSE Raising("convert_gee_image_to_geojson", "TypeError")

\* The three lists hold one element for each pixel of the unmasked image.
ConvertCalls ==
    UNION {{[fn |-> "convert_gee_image_to_geojson", z_score |-> z, latitude |-> lat,
             longitude |-> lon] :
                z \in [1..n -> FetchedNumbers], lat \in [1..n -> FetchedNumbers],
                lon \in [1..n -> FetchedNumbers]} : n \in 0..MaxPixels}

CallConvert ==
    /\ areq.fn = "convert_gee_image_to_geojson"
    /\ LibStep("convert_gee_image_to_geojson",
          convert_gee_image_to_geojson(areq.z_score, areq.latitude, areq.longitude))

InitLib ==
    /\ \/ areq \in LandsatCalls /\ world \in Catalogues
       \/ areq \in DictCalls /\ world = NoWorld
       \/ areq \in MaskCalls /\ world = NoWorld
       \/ areq \in ModisCalls \cup Era5Calls /\ world = NoWorld
       \/ areq \in CompositeCalls /\ world \in Collections
       \/ areq \in ConvertCalls /\ world = NoWorld
    /\ result = NoReturn
    /\ SrvOff
    /\ PipeOff

NextLib ==
    \/ CallGetLandsatCollection
    \/ CallGetFromDict
    \/ CallImageMask
    \/ CallModis
    \/ CallEra5
    \/ CallMakeComposite
    \/ CallConvert

SpecLib == InitLib /\ [][NextLib]_vars

\* C11: every scene get_landsat_collection of landsat_functions retains has a
\* CLOUD_COVER that does not exceed cloud_cover_perc.
C11_CloudFree ==
    (result.fn = "get_landsat_collection" /\ result.raised = "") =>
        \A i \in 1..Len(result.value) :
            result.value[i].CLOUD_COVER <= areq.cloud_cover_perc

KeyPositions(a_list, a_dict) == {i \in 1..Len(a_list) : a_list[i] \in DOMAIN a_dict}
\* The k-th smallest member of a set of positions.
KthOf(S, k) == CHOOSE i \in S : Cardinality({j \in S : j <= i}) = k

\* C12: get_from_dict(a_list, a_dict) returns a_dict's values for exactly the
\* elements of a_list that are keys of a_dict, in a_list order and with
\* repeats; elements that are not keys are skipped without error, so the
\* length is the number of elements that are keys, and the list is empty
\* when none is.
C12_GetFromDict ==
    result.fn = "get_from_dict" =>
        LET keys == KeyPositions(areq.a_list, areq.a_dict)
        IN  /\ result.raised = ""
            /\ Len(result.value) = Cardinality(keys)
            /\ \A k \in 1..Len(result.value) :
                  result.value[k] = areq.a_dict[areq.a_list[KthOf(keys, k)]]
            /\ keys = {} => result.value = <<>>
C12_Witness ==
    /\ result.fn = "get_from_dict"
    /\ areq.a_list = <<"b", "x", "b">>
    /\ DOMAIN areq.a_dict = {"a", "b"}
    /\ result.value = <<2, 2>>

\* C13: for a non-empty mask_parameter the function image_mask returns
\* leaves a pixel unmasked exactly when it was unmasked before and
\* from_image's value there is none of the listed values (the first list
\* element, which seeds the fold and is And-ed twice, changes nothing); the
\* bands and system:time_start are those of the input.
C13_ImageMask ==
    (result.fn = "image_mask" /\ areq.mask_parameter # <<>>) =>
        /\ result.raised = ""
        /\ result.value.valid <=>
              /\ areq.image.valid
              /\ \A i \in 1..Len(areq.mask_parameter) :
                    areq.mask_parameter[i] # areq.from_value
        /\ result.value.time_start = areq.image.time_start
        /\ result.value.names = areq.image.names
        /\ result.value.val = areq.image.val
C13_Witness ==
    /\ result.fn = "image_mask"
    /\ result.raised = ""
    /\ Len(areq.mask_parameter) = 2
    /\ areq.mask_parameter[1] # areq.from_value
    /\ areq.mask_parameter[2] = areq.from_value
    /\ areq.image.valid
    /\ ~result.value.valid

\* C14: get_modis46a_500_collection and get_era5_collection raise ValueError
\* when other_mask is supplied without other_mask_parameter and when
\* other_mask_parameter is supplied without other_mask; in neither case do
\* they return a collection.
C14_ValueError ==
    (/\ result.fn \in {"get_modis46a_500_collection", "get_era5_collection"}
     /\ (areq.other_mask = PyNone) # (areq.other_mask_parameter = PyNone)) =>
        result.raised = "ValueError"

-----------------------------------------------------------------------------
(* The band behind the z-score, under SpecAnomaly.                          *)

BandSeries(b) == [k \in 1..NYears |-> world.composites[k].val[b].a[1]]
\* The returned z_score is the standard score of the selected year within
\* the series of band b.
ZScoreFrom(b) ==
    LET z == result.image.val["z_score"]
        v == BandSeries(b)
        sq == [k \in 1..NYears |-> v[k] * v[k]]
        n == Cardinality(ValuedYears)
        S == SumOver(ValuedYears, v)
        QQ == SumOver(ValuedYears, sq)
        d == n * v[SelectedK] - S
        V == n * QQ - S * S
    IN  IF V = 0 THEN z = NInt(0)
        ELSE /\ NMul(NMul(z, z), NInt(V)) = NInt(d * d)
             /\ NNonNeg(NMul(z, NInt(d)))
             /\ d # 0 => ~NIsZero(z)
HasZScore == result.file # "none" /\ IsImage(result.image) /\ result.image.valid
IndexName == PyStr(areq.selected_vegetation_index)

\* C15: anomaly_processing chooses the band by the exact, case-sensitive
\* index name: 'NDVI' gives the z-score of band ndvi, 'EVI' that of band evi
\* and 'SAVI' that of band msavi; a name in another case selects none of
\* them; the composites carry no savi band.
C15_BandByName ==
    /\ HasZScore =>
          /\ IndexName = S_NDVI => ZScoreFrom("ndvi")
          /\ IndexName = S_EVI => ZScoreFrom("evi")
          /\ IndexName = S_SAVI => ZScoreFrom("msavi")
          /\ IndexName \notin {S_NDVI, S_EVI, S_SAVI} =>
                (result.file = "app" /\ ZScoreFrom(world.composites[1].names[1]))
    /\ (result.file = "module" /\ IndexName \notin {S_NDVI, S_EVI, S_SAVI}
            /\ PyInt(areq.selected_year).raised = "") =>
          result.image.status = "UnboundLocalError"
    /\ \A k \in 1..NYears : ~HasBand(world.composites[k], "savi")
C15_Witness ==
    /\ HasZScore
    /\ result.file = "module"
    /\ IndexName = S_SAVI
    /\ ZScoreFrom("msavi")
    /\ ~ZScoreFrom("ndvi")
    /\ ~ZScoreFrom("evi")

\* C16: in app.py a request whose index is none of 'NDVI', 'EVI', 'SAVI' is
\* not rejected: the five bands flow on, the z_score is that of the first
\* band, ndvi, and what is returned is what an 'NDVI' request with the same
\* year and grazing flag returns.
C16_UnknownIndex ==
    (result.file = "app" /\ IndexName \notin {S_NDVI, S_EVI, S_SAVI}) =>
        /\ result.image =
              anomaly_processing_app(world,
                  [areq EXCEPT !.selected_vegetation_index = JStr(S_NDVI)])
        /\ PyInt(areq.selected_year).raised = "" =>
              result.image.status \in {"image", "error"}
        /\ IsImage(result.image) => result.image.names = <<"z_score">>
        /\ HasZScore => ZScoreFrom("ndvi")
C16_Witness ==
    /\ result.file = "app"
    /\ IndexName = <<"s", "a", "v", "i">>
    /\ HasZScore
    /\ ZScoreFrom("ndvi")
    /\ ~ZScoreFrom("msavi")
    /\ ~ZScoreFrom("ndwi")

-----------------------------------------------------------------------------
(* make_composite, under SpecLib.                                           *)

CompositesMade == result.fn = "make_composite" /\ result.raised = ""
InputYears == {YearOf(world[i].time_start) : i \in 1..Len(world)}
EarliestYear == CHOOSE y \in InputYears : \A z \in InputYears : y <= z
LatestYear == CHOOSE y \in InputYears : \A z \in InputYears : y >= z

\* C17: make_composite returns one composite for every calendar year from
\* the year of the earliest image to the year of the latest image of its
\* input, in ascending order, also for a year without an image in the month
\* window; each has system:time_start on the first day of startMonth of its
\* year and carries start_month and end_month.
C17_OnePerYear ==
    (result.fn = "make_composite" /\ world # <<>>) =>
        /\ result.raised = ""
        /\ Len(result.value) = (LatestYear - EarliestYear) + 1
        /\ \A k \in 1..Len(result.value) :
              /\ result.value[k].time_start =
                    DateFromYMD(EarliestYear + k - 1, areq.startMonth, 1)
              /\ result.value[k].start_month = areq.startMonth
              /\ result.value[k].end_month = areq.endMonth
C17_Witness ==
    /\ CompositesMade
    /\ Len(result.value) = 3
    /\ result.value[2].names = <<>>
    /\ result.value[1].valid
    /\ result.value[3].valid

\* The images that enter the composite of year y at the pixel.
InWindow(y) ==
    {i \in 1..Len(world) :
        /\ DateFromYMD(y, areq.startMonth, 1) <= world[i].time_start
        /\ world[i].time_start < DateFromYMD(y, areq.endMonth, 31)}
Contributors(y) == {i \in InWindow(y) : world[i].valid}
PixelOf(i) == world[i].val["ndvi"].a
\* m is a median of the values of the images S: at most half of them are
\* below it and at most half above it, and it lies within their range.
IsMedianOf(m, S) ==
    /\ 2 * Cardinality({i \in S : QLt(PixelOf(i), m.a)}) <= Cardinality(S)
    /\ 2 * Cardinality({i \in S : QLt(m.a, PixelOf(i))}) <= Cardinality(S)
    /\ \E i \in S : QLe(PixelOf(i), m.a)
    /\ \E i \in S : QLe(m.a, PixelOf(i))
    /\ Cardinality(S) % 2 = 1 => \E i \in S : PixelOf(i) = m.a

\* C18: the composite of year y is the per-pixel median over exactly the
\* images whose time t has y-startMonth-01 <= t < y-endMonth-31; with months
\* 6 and 8 an image of August 31 or of a day outside June to August enters no
\* composite, and no image enters the composites of two years.
C18_MedianWindow ==
    CompositesMade =>
        /\ \A k \in 1..Len(result.value) :
              LET y == YearOf(result.value[k].time_start)
              IN  /\ result.value[k].names = <<>> <=> InWindow(y) = {}
                  /\ result.value[k].valid <=> (areq.inside /\ Contributors(y) # {})
                  /\ result.value[k].valid =>
                        /\ IsRat(result.value[k].val["ndvi"])
                        /\ IsMedianOf(result.value[k].val["ndvi"], Contributors(y))
        /\ \A i \in 1..Len(world) :
              Cardinality({y \in InputYears : i \in InWindow(y)}) <= 1
        /\ areq.startMonth = 6 =>
              \A i \in 1..Len(world) : \A y \in InputYears :
                  i \in InWindow(y) =>
                      \E m \in 6..8 : \E d \in 1..30 :
                          world[i].time_start = DateFromYMD(y, m, d)
                              \/ world[i].time_start = DateFromYMD(y, 7, 31)
C18_Witness ==
    /\ CompositesMade
    /\ areq.startMonth = 6
    /\ Len(world) = 3
    /\ world[1].time_start = DateFromYMD(FirstYear, 6, 1)
    /\ world[2].time_start = DateFromYMD(FirstYear, 8, 30)
    /\ world[3].time_start = DateFromYMD(FirstYear, 8, 31)
    /\ world[1].val["ndvi"] = NInt(0)
    /\ world[2].val["ndvi"] = NInt(0)
    /\ world[3].val["ndvi"] = NInt(1)
    /\ \A i \in 1..3 : world[i].valid
    /\ result.value[1].valid
    /\ result.value[1].val["ndvi"] = NInt(0)

\* C19: convert_gee_image_to_geojson returns the JSON text of a
\* FeatureCollection with one feature for each element of the fetched
\* z_score list, in the same order; feature i is a Point with coordinates
\* [longitude_i, latitude_i] and properties.z_score = z_score_i.
C19_GeoJson ==
    result.fn = "convert_gee_image_to_geojson" =>
        /\ result.raised = ""
        /\ result.value.type = "FeatureCollection"
        /\ Len(result.value.features) = Len(areq.z_score)
        /\ \A i \in 1..Len(areq.z_score) :
              LET feature == result.value.features[i]
              IN  /\ feature.type = "Feature"
                  /\ feature.geometry.type = "Point"
                  /\ Len(feature.geometry.coordinates) = 2
                  /\ feature.geometry.coordinates[1].halves = areq.longitude[i].halves
                  /\ feature.geometry.coordinates[2].halves = areq.latitude[i].halves
                  /\ feature.properties.z_score.halves = areq.z_score[i].halves

-----------------------------------------------------------------------------
(* app.py lines 23-55 with several requests in flight: the development     *)
(* server of app.run() (line 173) handles each request on a thread of its  *)
(* own.  areq holds the request of each thread, result the frame of each   *)
(* handler invocation (its position and local variables), world the answer *)
(* of the remote platform to each computation.                             *)

MaxClients == 2
Clients == 1..MaxClients

Body(province, soum, index, year, grazing) ==
    [kind |-> "object",
     fields |-> [f \in {g \in Fields :
                          (CASE g = "selectedProvince" -> province
                             [] g = "selectedSoum" -> soum
                             [] g = "selectedVegetationIndex" -> index
                             [] g = "selectedYear" -> year
                             [] OTHER -> grazing) # Absent} |->
                    CASE f = "selectedProvince" -> province
                      [] f = "selectedSoum" -> soum
                      [] f = "selectedVegetationIndex" -> index
                      [] f = "selectedYear" -> year
                      [] OTHER -> grazing]]
ValidBodies ==
    {Body(JStr(<<"A">>), JStr(<<"S">>), JStr(S_NDVI), JNum(FirstYear + 1), JBool(TRUE)),
     Body(JStr(<<"A">>), JStr(<<"S">>), JStr(<<"x">>), JStr(NatToChars(FirstYear + 1)),
          JBool(FALSE))}
ConcBodies ==
    ValidBodies \cup
    {Body(JStr(<<"A">>), Absent, JStr(S_NDVI), JNum(FirstYear + 1), JBool(TRUE)),
     Body(JStr(<<"A">>), JStr(<<"S">>), JStr(S_NDVI), JStr(<<"y">>), JBool(TRUE)),
     [kind |-> "null", fields |-> <<>>]}

\* line 64-67, 73, 87-94, 101-102: what the expression sent to the remote
\* platform is built from
Query(d) ==
    [province |-> PyStr(Get(d, "selectedProvince")),
     soum |-> PyStr(Get(d, "selectedSoum")),
     index |-> PyStr(Get(d, "selectedVegetationIndex")),
     year |-> PyInt(Get(d, "selectedYear")).v,
     grazing |-> PyTruthy(Get(d, "grazingOnly"))]
Queries == {Query(d) : d \in ValidBodies}

\* The remote platform's answer to a computation: the fetches of
\* make_composite fail or succeed, and so do those of the three lists.
RemoteLists ==
    {[z_score |-> <<Fetched(z)>>, latitude |-> <<Fetched(1)>>, longitude |-> <<Fetched(1)>>] :
        z \in {0, 1}}
NoLists == [z_score |-> <<>>, latitude |-> <<>>, longitude |-> <<>>]
RemoteAnswers ==
    {[composite |-> "EEException", fetch |-> "EEException", lists |-> NoLists],
     [composite |-> "ok", fetch |-> "EEException", lists |-> NoLists]}
    \cup {[composite |-> "ok", fetch |-> "ok", lists |-> l] : l \in RemoteLists}

NoFrame == [pc |-> "received", data |-> NoBody, gee_image |-> <<>>, geojson |-> <<>>,
            resp |-> NoResponse]

\* jsonify(geojson_data) of line 55: the JSON text becomes a JSON string.
Jsonify(text) == [json_string |-> text]
OkResponse(geojson_data) ==
    [status |-> 200, body |-> Jsonify(geojson_data), content_type |-> "application/json"]

\* Mutant of CurrentRequest: `request` is one module-level object, that of
\* the first request.
CurrentRequestShared(t) == areq[1]
\* line 25: flask.request is the request of the thread's own context
CurrentRequest(t) == areq[t]

ConcStep(t, from, frame) ==
    /\ result[t].pc = from
    /\ result' = [result EXCEPT ![t] = frame]
    /\ UNCHANGED <<world, areq>>
    /\ UNCHANGED srvVars
    /\ UNCHANGED pipeVars
Answer(t, from, response) ==
    ConcStep(t, from, [result[t] EXCEPT !.pc = "done", !.resp = response])

\* line 25-30
HandleGetJson(t) ==
    LET request == CurrentRequest(t)
    IN  /\ result[t].pc = "received"
        /\ \/ /\ request.kind # "object"
              /\ Answer(t, "received", ServerErrorResponse)
           \/ /\ request.kind = "object"
              /\ ConcStep(t, "received",
                    [result[t] EXCEPT !.pc = "validate", !.data = request])
\* line 33-40
HandleValidate(t) ==
    /\ result[t].pc = "validate"
    /\ \/ /\ MissingRequired(result[t].data)
          /\ Answer(t, "validate", MissingFieldsResponse)
       \/ /\ ~MissingRequired(result[t].data)
          /\ ConcStep(t, "validate", [result[t] EXCEPT !.pc = "anomaly"])
\* line 43-49, 57-121
HandleAnomalyProcessing(t) ==
    LET d == result[t].data
    IN  /\ result[t].pc = "anomaly"
        /\ \/ /\ PyInt(Get(d, "selectedYear")).raised # ""
              /\ Answer(t, "anomaly", ServerErrorResponse)
           \/ /\ PyInt(Get(d, "selectedYear")).raised = ""
              /\ world[Query(d)].composite = "EEException"
              /\ Answer(t, "anomaly", ServerErrorResponse)
           \/ /\ PyInt(Get(d, "selectedYear")).raised = ""
              /\ world[Query(d)].composite = "ok"
              /\ ConcStep(t, "anomaly",
                    [result[t] EXCEPT !.pc = "convert", !.gee_image = Query(d)])
\* line 52, 123-170
HandleConvert(t) ==
    LET answer == world[result[t].gee_image]
        l == answer.lists
        out == convert_gee_image_to_geojson(l.z_score, l.latitude, l.longitude)
    IN  /\ result[t].pc = "convert"
        /\ \/ /\ answer.fetch = "EEException"
              /\ Answer(t, "convert", ServerErrorResponse)
           \/ /\ answer.fetch = "ok"
              /\ out.raised # ""
              /\ Answer(t, "convert", ServerErrorResponse)
           \/ /\ answer.fetch = "ok"
              /\ out.raised = ""
              /\ ConcStep(t, "convert",
                    [result[t] EXCEPT !.pc = "respond", !.geojson = out.value])
\* line 55
HandleRespond(t) ==
    /\ result[t].pc = "respond"
    /\ Answer(t, "respond", OkResponse(result[t].geojson))

\* line 23-55 for one request handled alone, from the first line to the last
fetch_anomaly_map_data(request, remote) ==
    IF request.kind # "object" THEN ServerErrorResponse
    ELSE IF MissingRequired(request) THEN MissingFieldsResponse
    ELSE IF PyInt(Get(request, "selectedYear")).raised # "" THEN ServerErrorResponse
    ELSE LET answer == remote[Query(request)]
         IN  IF answer.composite = "EEException" \/ answer.fetch = "EEException"
             THEN ServerErrorResponse
             ELSE LET l == answer.lists
                      out == convert_gee_image_to_geojson(l.z_score, l.latitude,
                                                          l.longitude)
                  IN  IF out.raised # "" THEN ServerErrorResponse
                      ELSE OkResponse(out.value)

InitConc ==
    /\ world \in [Queries -> RemoteAnswers]
    /\ areq \in [Clients -> ConcBodies]
    /\ result = [t \in Clients |-> NoFrame]
    /\ SrvOff
    /\ PipeOff

NextConc ==
    \/ \E t \in Clients : HandleGetJson(t)
    \/ \E t \in Clients : HandleValidate(t)
    \/ \E t \in Clients : HandleAnomalyProcessing(t)
    \/ \E t \in Clients : HandleConvert(t)
    \/ \E t \in Clients : HandleRespond(t)

SpecConc == InitConc /\ [][NextConc]_vars

SameResponse(a, b) ==
    /\ a.status = b.status
    /\ a.content_type = b.content_type
    /\ a.body = b.body

\* C20: the handler keeps no state shared between requests: under every
\* interleaving of the handlers' steps, the response each request gets is
\* the one it gets when handled alone, a function of its own body and of
\* the remote platform's answers.
C20_Isolated ==
    \A t \in Clients :
        result[t].pc = "done" =>
            SameResponse(result[t].resp, fetch_anomaly_map_data(areq[t], world))
\* Request 1 has been answered 200 while request 2, with another body, is
\* inside convert_gee_image_to_geojson, and will be answered otherwise.
C20_Witness ==
    /\ result[1].pc = "done"
    /\ result[1].resp.status = 200
    /\ result[2].pc = "convert"
    /\ areq[2] # areq[1]
    /\ fetch_anomaly_map_data(areq[2], world).status = 500

=============================================================================
